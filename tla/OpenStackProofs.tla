--------------------------- MODULE OpenStackProofs ---------------------------
(***************************************************************************)
(* Theorems about the load balancer of OpenStack in CloudProviders, for    *)
(* any shapes of a Service, any nodes, and any number of changes and       *)
(* failed requests.                                                        *)
(***************************************************************************)
EXTENDS CloudProviders, FiniteSetTheorems, TLAPS

-----------------------------------------------------------------------------
(***************************************************************************)
(* Sequences of steps for ports                                            *)
(***************************************************************************)
LEMMA Division ==
    ASSUME NEW n \in 1 .. 5, NEW m \in Nat, NEW k \in 0 .. m * n - 1
    PROVE  /\ k % n \in 0 .. n - 1
           /\ k \div n \in 0 .. m - 1
           /\ k = (k \div n) * n + (k % n)
<1>0. n = 1 \/ n = 2 \/ n = 3 \/ n = 4 \/ n = 5
  OBVIOUS
<1>1. CASE n = 1 BY <1>1
<1>2. CASE n = 2 BY <1>2
<1>3. CASE n = 3 BY <1>3
<1>4. CASE n = 4 BY <1>4
<1>5. CASE n = 5 BY <1>5
<1> QED BY <1>0, <1>1, <1>2, <1>3, <1>4, <1>5

LEMMA Multiple ==
    ASSUME NEW n \in 1 .. 5, NEW m \in Nat, NEW a \in 0 .. n - 1, NEW b \in 0 .. m - 1
    PROVE  /\ b * n + a \in 0 .. m * n - 1
           /\ (b * n + a) % n = a
           /\ (b * n + a) \div n = b
<1>0. n = 1 \/ n = 2 \/ n = 3 \/ n = 4 \/ n = 5
  OBVIOUS
<1>1. CASE n = 1 BY <1>1
<1>2. CASE n = 2 BY <1>2
<1>3. CASE n = 3 BY <1>3
<1>4. CASE n = 4 BY <1>4
<1>5. CASE n = 5 BY <1>5
<1> QED BY <1>0, <1>1, <1>2, <1>3, <1>4, <1>5

\* Two places of a sequence made of rows of n
LEMMA Rows ==
    ASSUME NEW n \in 1 .. 5, NEW m \in Nat, NEW k \in 0 .. m * n - 1, NEW l \in 0 .. m * n - 1
    PROVE  /\ k < l /\ k \div n = l \div n => k % n < l % n
           /\ l = k + 1 => \/ l % n = 0
                           \/ l \div n = k \div n /\ l % n = (k % n) + 1
<1>0. n = 1 \/ n = 2 \/ n = 3 \/ n = 4 \/ n = 5
  OBVIOUS
<1>1. CASE n = 1 BY <1>1
<1>2. CASE n = 2 BY <1>2
<1>3. CASE n = 3 BY <1>3
<1>4. CASE n = 4 BY <1>4
<1>5. CASE n = 5 BY <1>5
<1> QED BY <1>0, <1>1, <1>2, <1>3, <1>4, <1>5

Distinct(s) == \A i, j \in DOMAIN s : s[i] = s[j] => i = j

(***************************************************************************)
(* The steps, and their order: for one port, or for none, they have one    *)
(* order, and the load balancer goes behind its listeners.                 *)
(***************************************************************************)
PortWork     == {"listener", "pool", "members", "member", "monitor"}
Obsolete     == {"drop_monitor", "drop_members", "drop_pool", "drop_listener"}
EnsureStart  == {"balancer", "listeners"}
EnsureEnd    == {"floating", "group", "rules", "port"}
UpdateStart  == {"find_pools"}
DeleteStart  == {"find", "drop_floating", "listeners_to_drop"}
DeleteEnd    == {"drop_balancer", "drop_group", "close_nodes"}

OSSteps == ((PortWork \cup Obsolete) \X PortNumbers)
             \cup ((EnsureStart \cup EnsureEnd \cup UpdateStart \cup DeleteStart \cup DeleteEnd) \X {0})

PortOrNone == PortNumbers \cup {0}

OSRank(x) ==
    CASE x \in {"balancer", "find_pools", "find"} -> 1
      [] x \in {"listeners", "drop_floating"}     -> 2
      [] x = "listeners_to_drop" -> 3
      [] x = "listener"      -> 4
      [] x = "pool"          -> 5
      [] x = "members"       -> 6
      [] x = "member"        -> 7
      [] x = "monitor"       -> 8
      [] x = "drop_monitor"  -> 9
      [] x = "drop_members"  -> 10
      [] x = "drop_pool"     -> 11
      [] x = "drop_listener" -> 12
      [] x = "floating"      -> 13
      [] x = "group"         -> 14
      [] x = "rules"         -> 15
      [] x = "port"          -> 16
      [] x = "drop_balancer" -> 17
      [] x = "drop_group"    -> 18
      [] x = "close_nodes"   -> 19

Names == PortWork \cup Obsolete \cup EnsureStart \cup EnsureEnd \cup UpdateStart \cup DeleteStart
           \cup DeleteEnd

Before(a, b) ==
    /\ a[2] = b[2] => OSRank(a[1]) < OSRank(b[1])
    /\ a[1] = "drop_balancer" => b[1] /= "drop_listener"

Ordered(s) == \A i, j \in DOMAIN s : i < j => Before(s[i], s[j])

\* The members of a pool are changed as soon as they are read.
Follows(s)  == \A i \in DOMAIN s : s[i][1] = "member" => i = 1 \/ s[i - 1] = <<"members", s[i][2]>>
Adjacent(s) == Follows(s) /\ \A i \in DOMAIN s : s[i][1] = "member" => i /= 1

LEMMA OSRanks == \A x \in Names : OSRank(x) \in Nat
  BY DEF Names, OSRank, PortWork, Obsolete, EnsureStart, EnsureEnd, UpdateStart, DeleteStart, DeleteEnd

LEMMA OSStepTypes ==
    ASSUME NEW x \in OSSteps
    PROVE  /\ x[1] \in Names /\ x = <<x[1], x[2]>>
           /\ x[1] \in PortWork \cup Obsolete => x[2] \in PortNumbers
           /\ x[1] \notin PortWork \cup Obsolete => x[2] = 0
  BY DEF OSSteps, Names, PortWork, Obsolete, EnsureStart, EnsureEnd, UpdateStart, DeleteStart,
         DeleteEnd

LEMMA Distinguished ==
    ASSUME NEW x \in OSSteps
    PROVE  ~Before(x, x)
<1>1. OSRank(x[1]) \in Nat
  BY OSStepTypes, OSRanks
<1>2. ~(OSRank(x[1]) < OSRank(x[1]))
  BY <1>1
<1> QED BY <1>2 DEF Before

\* What is left behind the first step
LEMMA Tails ==
    ASSUME NEW s \in Seq(OSSteps), Len(s) > 0, Ordered(s)
    PROVE  /\ Head(s) = s[1] /\ Head(s) \in OSSteps /\ Head(s) \in ToSet(s)
           /\ Tail(s) \in Seq(OSSteps)
           /\ ToSet(Tail(s)) = ToSet(s) \ {Head(s)}
           /\ Ordered(Tail(s))
           /\ Follows(s) => Follows(Tail(s))
           /\ \A b \in ToSet(Tail(s)) : Before(Head(s), b)
<1>1. Tail(s) \in Seq(OSSteps) /\ Len(Tail(s)) = Len(s) - 1 /\ Len(s) \in Nat \ {0}
  OBVIOUS
<1>2. DOMAIN s = 1 .. Len(s) /\ DOMAIN Tail(s) = 1 .. (Len(s) - 1)
  BY <1>1
<1>3. \A i \in DOMAIN Tail(s) : Tail(s)[i] = s[i + 1] /\ i + 1 \in DOMAIN s /\ 1 < i + 1 /\ i \in Nat
  BY <1>1, <1>2
<1>4. Head(s) = s[1] /\ 1 \in DOMAIN s /\ Head(s) \in OSSteps
  BY <1>1, <1>2
<1>5. \A b \in ToSet(Tail(s)) : Before(Head(s), b)
  BY <1>3, <1>4 DEF ToSet, Ordered
<1>6. ToSet(Tail(s)) = ToSet(s) \ {Head(s)}
  <2>1. Head(s) \notin ToSet(Tail(s))
    BY <1>4, <1>5, Distinguished
  <2>2. \A x \in ToSet(Tail(s)) : x \in ToSet(s)
    BY <1>3 DEF ToSet
  <2>3. ASSUME NEW i \in DOMAIN s, s[i] # Head(s) PROVE s[i] \in ToSet(Tail(s))
    <3>1. i # 1
      BY <1>4, <2>3
    <3>2. i - 1 \in DOMAIN Tail(s) /\ (i - 1) + 1 = i
      BY <1>1, <1>2, <3>1
    <3>3. Tail(s)[i - 1] = s[i]
      BY <1>3, <3>2
    <3> QED BY <3>2, <3>3 DEF ToSet
  <2>4. \A x \in ToSet(s) : x # Head(s) => x \in ToSet(Tail(s))
    BY <2>3 DEF ToSet
  <2> QED BY <2>1, <2>2, <2>4
<1>7. Ordered(Tail(s))
  <2> SUFFICES ASSUME NEW i \in DOMAIN Tail(s), NEW j \in DOMAIN Tail(s), i < j
               PROVE  Before(Tail(s)[i], Tail(s)[j])
    BY DEF Ordered
  <2>1. i + 1 < j + 1
    BY <1>3
  <2> QED BY <1>3, <2>1 DEF Ordered
<1>8. ASSUME Follows(s) PROVE Follows(Tail(s))
  <2> SUFFICES ASSUME NEW i \in DOMAIN Tail(s), Tail(s)[i][1] = "member", i # 1
               PROVE  Tail(s)[i - 1] = <<"members", Tail(s)[i][2]>>
    BY DEF Follows
  <2>1. i + 1 \in DOMAIN s /\ i + 1 # 1 /\ (i + 1) - 1 = i /\ s[i + 1] = Tail(s)[i]
    BY <1>3
  <2>2. s[i] = <<"members", Tail(s)[i][2]>>
    BY <1>8, <2>1 DEF Follows
  <2>3. i - 1 \in DOMAIN Tail(s) /\ (i - 1) + 1 = i
    BY <1>1, <1>2
  <2>4. Tail(s)[i - 1] = s[i]
    BY <1>3, <2>3
  <2> QED BY <2>2, <2>4
<1>9. Head(s) \in ToSet(s)
  BY <1>4 DEF ToSet
<1> QED BY <1>1, <1>4, <1>5, <1>6, <1>7, <1>8, <1>9

\* One sequence behind another
LEMMA Joins ==
    ASSUME NEW s \in Seq(OSSteps), NEW t \in Seq(OSSteps), Ordered(s), Ordered(t),
           \A a \in ToSet(s), b \in ToSet(t) : Before(a, b)
    PROVE  /\ s \o t \in Seq(OSSteps) /\ Len(s \o t) = Len(s) + Len(t)
           /\ ToSet(s \o t) = ToSet(s) \cup ToSet(t)
           /\ Ordered(s \o t)
           /\ Follows(s) /\ Adjacent(t) => Follows(s \o t)
           /\ Adjacent(s) /\ Adjacent(t) => Adjacent(s \o t)
<1> DEFINE u == s \o t
           n == Len(s)
<1>1. u \in Seq(OSSteps) /\ Len(u) = n + Len(t) /\ n \in Nat /\ Len(t) \in Nat
  OBVIOUS
<1>2. DOMAIN s = 1 .. n /\ DOMAIN t = 1 .. Len(t) /\ DOMAIN u = 1 .. n + Len(t)
  BY <1>1
<1>3. \A i \in DOMAIN s : u[i] = s[i] /\ i \in DOMAIN u
  BY <1>1, <1>2
<1>4. \A i \in DOMAIN t : u[n + i] = t[i] /\ n + i \in DOMAIN u
  BY <1>1, <1>2
<1>5. \A i \in DOMAIN u : i \notin DOMAIN s => i - n \in DOMAIN t /\ n + (i - n) = i /\ u[i] = t[i - n]
  BY <1>1, <1>2
<1> HIDE DEF u, n
<1>6. ToSet(u) = ToSet(s) \cup ToSet(t)
  <2>1. \A i \in DOMAIN u : u[i] \in ToSet(s) \cup ToSet(t)
    BY <1>3, <1>5 DEF ToSet
  <2>2. \A i \in DOMAIN s : s[i] \in ToSet(u)
    BY <1>3 DEF ToSet
  <2>3. \A i \in DOMAIN t : t[i] \in ToSet(u)
    BY <1>4 DEF ToSet
  <2> QED BY <2>1, <2>2, <2>3 DEF ToSet
<1>7. Ordered(u)
  <2> SUFFICES ASSUME NEW i \in DOMAIN u, NEW j \in DOMAIN u, i < j
               PROVE  Before(u[i], u[j])
    BY DEF Ordered
  <2>1. CASE i \in DOMAIN s /\ j \in DOMAIN s
    BY <1>3, <2>1 DEF Ordered
  <2>2. CASE i \in DOMAIN s /\ j \notin DOMAIN s
    BY <1>3, <1>5, <2>2 DEF ToSet
  <2>3. CASE i \notin DOMAIN s /\ j \notin DOMAIN s
    <3>1. i - n < j - n
      BY <1>1, <1>2
    <3> QED BY <1>5, <2>3, <3>1 DEF Ordered
  <2>4. i \notin DOMAIN s => j \notin DOMAIN s
    BY <1>1, <1>2
  <2> QED BY <2>1, <2>2, <2>3, <2>4
<1>8. ASSUME Follows(s), Adjacent(t) PROVE Follows(u)
  <2> SUFFICES ASSUME NEW i \in DOMAIN u, u[i][1] = "member", i # 1
               PROVE  u[i - 1] = <<"members", u[i][2]>>
    BY DEF Follows
  <2>1. CASE i \in DOMAIN s
    <3>1. i - 1 \in DOMAIN s
      BY <1>1, <1>2, <2>1
    <3> QED BY <1>3, <1>8, <2>1, <3>1 DEF Follows
  <2>2. CASE i \notin DOMAIN s
    <3>1. i - n \in DOMAIN t /\ u[i] = t[i - n]
      BY <1>5, <2>2
    <3>2. i - n # 1 /\ t[(i - n) - 1] = <<"members", u[i][2]>>
      BY <1>8, <3>1 DEF Adjacent, Follows
    <3>3. (i - n) - 1 \in DOMAIN t /\ n + ((i - n) - 1) = i - 1
      BY <1>1, <1>2, <3>1, <3>2
    <3> QED BY <1>4, <3>2, <3>3
  <2> QED BY <2>1, <2>2
<1>9. ASSUME Adjacent(s), Adjacent(t), NEW i \in DOMAIN u, u[i][1] = "member" PROVE i # 1
  <2>1. CASE i \in DOMAIN s
    BY <1>3, <1>9, <2>1 DEF Adjacent
  <2>2. CASE i \notin DOMAIN s
    <3>1. i - n \in DOMAIN t /\ u[i] = t[i - n]
      BY <1>5, <2>2
    <3>2. i - n # 1
      BY <1>9, <3>1 DEF Adjacent
    <3> QED BY <1>1, <1>2, <3>1, <3>2
  <2> QED BY <2>1, <2>2
<1> QED BY <1>1, <1>6, <1>7, <1>8, <1>9 DEF u, n, Adjacent

(***************************************************************************)
(* The steps of a call, as the code plans them                             *)
(***************************************************************************)
LEMMA Elements ==
    ASSUME NEW A, NEW f \in Seq(A), NEW i \in DOMAIN f
    PROVE  f[i] \in A
  OBVIOUS

LEMMA Retyped ==
    ASSUME NEW A, NEW B, NEW f \in Seq(A), \A i \in DOMAIN f : f[i] \in B
    PROVE  f \in Seq(B)
  OBVIOUS

\* Each step is the first for its port, or follows the one before it.
InRows(f, names) ==
    \A i \in DOMAIN f :
       \/ f[i][1] = names[1]
       \/ i > 1 /\ \E a \in DOMAIN names : /\ a > 1 /\ f[i][1] = names[a]
                                           /\ f[i - 1] = <<names[a - 1], f[i][2]>>

RowsInOrder(f, names) ==
    \A i, j \in DOMAIN f : i < j /\ f[i][2] = f[j][2] =>
      \E a, b \in DOMAIN names : a < b /\ f[i][1] = names[a] /\ f[j][1] = names[b]

(***************************************************************************)
(* ForEach makes all steps for each port, those for one port in the order  *)
(* given.                                                                  *)
(***************************************************************************)
LEMMA Loops ==
    ASSUME NEW names \in Seq(Names), NEW ports \in Seq(PortOrNone), Len(names) \in 1 .. 5,
           NEW f, f = ForEach(names, ports)
    PROVE  /\ f \in Seq(Names \X PortOrNone)
           /\ ToSet(f) = ToSet(names) \X ToSet(ports)
           /\ Distinct(ports) => RowsInOrder(f, names)
           /\ InRows(f, names)
<1> DEFINE n == Len(names)
           m == Len(ports)
           Name(k) == names[1 + (k % n)]
           Port(k) == ports[1 + (k \div n)]
<1>1. n \in 1 .. 5 /\ m \in Nat /\ DOMAIN names = 1 .. n /\ DOMAIN ports = 1 .. m
  OBVIOUS
<1>2. \A i \in 1 .. n : names[i] \in Names
  OBVIOUS
<1>3. \A i \in 1 .. m : ports[i] \in PortOrNone
  OBVIOUS
<1>4. f = [i \in 1 .. m * n |-> <<Name(i - 1), Port(i - 1)>>]
  BY DEF ForEach
<1> HIDE DEF n, m
<1>5. m * n \in Nat
  BY <1>1
<1>6. DOMAIN f = 1 .. m * n /\ \A i \in 1 .. m * n : i - 1 \in 0 .. m * n - 1
  BY <1>4, <1>5
<1>7. \A i \in DOMAIN f : /\ f[i] = <<Name(i - 1), Port(i - 1)>>
                          /\ f[i][1] = Name(i - 1) /\ f[i][2] = Port(i - 1)
  BY <1>4, <1>6
<1>8. \A k \in 0 .. m * n - 1 : 1 + (k % n) \in 1 .. n /\ 1 + (k \div n) \in 1 .. m
  <2> TAKE k \in 0 .. m * n - 1
  <2>1. k % n \in 0 .. n - 1 /\ k \div n \in 0 .. m - 1
    BY <1>1, Division
  <2> QED BY <1>1, <2>1
<1>9. f \in Seq(Names \X PortOrNone)
  <2>1. \A i \in DOMAIN f : f[i] \in Names \X PortOrNone
    <3> TAKE i \in DOMAIN f
    <3>1. Name(i - 1) \in Names /\ Port(i - 1) \in PortOrNone
      BY <1>2, <1>3, <1>6, <1>8
    <3> QED BY <1>7, <3>1
  <2> QED BY <1>4, <1>5, <1>6, <2>1
<1>10. ToSet(f) = ToSet(names) \X ToSet(ports)
  <2>1. ASSUME NEW i \in DOMAIN f PROVE f[i] \in ToSet(names) \X ToSet(ports)
    <3>1. 1 + ((i - 1) % n) \in DOMAIN names /\ 1 + ((i - 1) \div n) \in DOMAIN ports
      BY <1>1, <1>6, <1>8
    <3>2. Name(i - 1) \in ToSet(names) /\ Port(i - 1) \in ToSet(ports)
      BY <3>1 DEF ToSet
    <3> QED BY <1>7, <3>2
  <2>2. ASSUME NEW x \in ToSet(names), NEW y \in ToSet(ports) PROVE <<x, y>> \in ToSet(f)
    <3>1. PICK a \in 1 .. n, b \in 1 .. m : x = names[a] /\ y = ports[b]
      BY <1>1 DEF ToSet
    <3>2. PICK k \in 0 .. m * n - 1 : k % n = a - 1 /\ k \div n = b - 1
      <4>1. a - 1 \in 0 .. n - 1 /\ b - 1 \in 0 .. m - 1
        BY <1>1
      <4> QED BY <1>1, <4>1, Multiple
    <3>3. 1 + (k % n) = a /\ 1 + (k \div n) = b
      BY <3>2
    <3>4. k + 1 \in DOMAIN f /\ (k + 1) - 1 = k
      BY <1>5, <1>6
    <3>5. f[k + 1] = <<Name(k), Port(k)>>
      BY <1>7, <3>4
    <3>6. f[k + 1] = <<x, y>>
      BY <3>1, <3>3, <3>5
    <3> QED BY <3>4, <3>6 DEF ToSet
  <2>3. ToSet(f) = {f[i] : i \in DOMAIN f}
    BY DEF ToSet
  <2> QED BY <2>1, <2>2, <2>3
<1>11. ASSUME Distinct(ports), NEW i \in DOMAIN f, NEW j \in DOMAIN f, i < j, f[i][2] = f[j][2]
       PROVE  \E a, b \in DOMAIN names : a < b /\ f[i][1] = names[a] /\ f[j][1] = names[b]
  <2> DEFINE k == i - 1
             l == j - 1
  <2>1. k \in 0 .. m * n - 1 /\ l \in 0 .. m * n - 1 /\ k < l
    BY <1>5, <1>6, <1>11
  <2> HIDE DEF k, l
  <2>2. f[i][1] = Name(k) /\ f[i][2] = Port(k) /\ f[j][1] = Name(l) /\ f[j][2] = Port(l)
    BY <1>7 DEF k, l
  <2>3. 1 + (k \div n) = 1 + (l \div n)
    BY <1>1, <1>8, <1>11, <2>1, <2>2 DEF Distinct
  <2>4. k \div n \in Int /\ l \div n \in Int /\ k % n \in Int /\ l % n \in Int
    <3>1. k \div n \in 0 .. m - 1 /\ l \div n \in 0 .. m - 1 /\ k % n \in 0 .. n - 1 /\ l % n \in 0 .. n - 1
      BY <1>1, <2>1, Division
    <3> QED BY <1>1, <3>1
  <2>5. k % n < l % n
    <3>1. k \div n = l \div n
      BY <2>3, <2>4
    <3> QED BY <1>1, <2>1, <3>1, Rows
  <2>6. 1 + (k % n) < 1 + (l % n)
    BY <2>4, <2>5
  <2> QED BY <1>1, <1>8, <2>1, <2>2, <2>6
<1>12. ASSUME NEW i \in DOMAIN f
       PROVE  \/ f[i][1] = names[1]
              \/ i > 1 /\ \E a \in DOMAIN names : /\ a > 1 /\ f[i][1] = names[a]
                                                  /\ f[i - 1] = <<names[a - 1], f[i][2]>>
  <2> DEFINE l == i - 1
  <2>1. l \in 0 .. m * n - 1
    BY <1>6
  <2>2. f[i][1] = Name(l) /\ f[i][2] = Port(l)
    BY <1>7
  <2>3. l % n \in 0 .. n - 1
    BY <1>1, <2>1, Division
  <2>4. CASE l % n = 0
    BY <2>2, <2>4
  <2>5. CASE l % n # 0
    <3>1. l # 0
      <4> SUFFICES ASSUME l = 0 PROVE FALSE
        OBVIOUS
      <4>1. 0 \in 0 .. n - 1 /\ 0 \in 0 .. m - 1 /\ 0 * n + 0 = 0
        <5>1. l \div n \in 0 .. m - 1
          BY <1>1, <2>1, Division
        <5> QED BY <1>1, <5>1
      <4>2. 0 % n = 0
        BY <1>1, <4>1, Multiple
      <4> QED BY <2>5, <4>2
    <3> DEFINE k == l - 1
    <3>2. k \in 0 .. m * n - 1 /\ l = k + 1 /\ i > 1 /\ i - 1 \in DOMAIN f /\ (i - 1) - 1 = k
      BY <1>5, <1>6, <2>1, <3>1
    <3> HIDE DEF k, l
    <3>3. l \div n = k \div n /\ l % n = (k % n) + 1
      BY <1>1, <2>1, <2>5, <3>2, Rows
    <3>4. k % n \in 0 .. n - 1
      BY <1>1, <3>2, Division
    <3>5. f[i - 1] = <<Name(k), Port(k)>>
      BY <1>7, <3>2
    <3> DEFINE a == 1 + (l % n)
    <3>6. a \in DOMAIN names /\ a > 1 /\ a - 1 = 1 + (k % n)
      BY <1>1, <2>3, <3>3, <3>4
    <3>7. f[i][1] = names[a]
      BY <2>2
    <3>8. f[i - 1] = <<names[a - 1], f[i][2]>>
      BY <2>2, <3>3, <3>5, <3>6
    <3> HIDE DEF a
    <3> QED BY <3>2, <3>6, <3>7, <3>8
  <2> QED BY <2>4, <2>5
<1> QED BY <1>9, <1>10, <1>11, <1>12 DEF InRows, RowsInOrder

(***************************************************************************)
(* A loop over such names in order has its steps in order.                 *)
(***************************************************************************)
Sorted(names) ==
    /\ names \in Seq(Names) /\ Len(names) \in 1 .. 5
    /\ \A a, b \in DOMAIN names : a < b => OSRank(names[a]) < OSRank(names[b])
    /\ "drop_balancer" \notin ToSet(names) \/ "drop_listener" \notin ToSet(names)
    /\ names[1] /= "member"
    /\ \A a \in DOMAIN names : a > 1 /\ names[a] = "member" => names[a - 1] = "members"

OSPlan(s, X) == s \in Seq(OSSteps) /\ ToSet(s) = X /\ Ordered(s) /\ Adjacent(s)

LEMMA Loop ==
    ASSUME NEW names, Sorted(names), NEW ports \in Seq(PortOrNone), Distinct(ports),
           ToSet(names) \X ToSet(ports) \subseteq OSSteps
    PROVE  OSPlan(ForEach(names, ports), ToSet(names) \X ToSet(ports))
<1>0. names \in Seq(Names) /\ Len(names) \in 1 .. 5
  BY DEF Sorted
<1> PICK f : f = ForEach(names, ports)
  OBVIOUS
<1>1. f \in Seq(Names \X PortOrNone) /\ ToSet(f) = ToSet(names) \X ToSet(ports)
  BY <1>0, Loops
<1>11. RowsInOrder(f, names)
  BY <1>0, Loops
<1>12. InRows(f, names)
  BY <1>0, Loops
<1>2. \A i \in DOMAIN f : f[i] \in ToSet(f)
  BY DEF ToSet
<1>3. f \in Seq(OSSteps)
  <2>1. \A i \in DOMAIN f : f[i] \in OSSteps
    BY <1>1, <1>2
  <2> QED BY <1>1, <2>1, Retyped
<1>4. Ordered(f)
  <2> SUFFICES ASSUME NEW i \in DOMAIN f, NEW j \in DOMAIN f, i < j
               PROVE  Before(f[i], f[j])
    BY DEF Ordered
  <2>1. f[i][2] = f[j][2] => OSRank(f[i][1]) < OSRank(f[j][1])
    BY <1>11 DEF RowsInOrder, Sorted
  <2>2. f[i][1] \in ToSet(names) /\ f[j][1] \in ToSet(names)
    BY <1>1, <1>2
  <2> QED BY <2>1, <2>2 DEF Before, Sorted
<1>5. Adjacent(f)
  <2> SUFFICES ASSUME NEW i \in DOMAIN f, f[i][1] = "member"
               PROVE  i # 1 /\ f[i - 1] = <<"members", f[i][2]>>
    BY DEF Adjacent, Follows
  <2>1. i > 1 /\ \E a \in DOMAIN names : /\ a > 1 /\ f[i][1] = names[a]
                                         /\ f[i - 1] = <<names[a - 1], f[i][2]>>
    BY <1>12 DEF InRows, Sorted
  <2> QED BY <2>1 DEF Sorted
<1> QED BY <1>1, <1>3, <1>4, <1>5 DEF OSPlan

\* The sequence of a set
LEMMA Enumeration ==
    ASSUME NEW S, IsFiniteSet(S)
    PROVE  /\ SetToSeq(S) \in Seq(S)
           /\ ToSet(SetToSeq(S)) = S
           /\ Distinct(SetToSeq(S))
<1> DEFINE n == Cardinality(S)
           D == 1 .. n
<1>1. n \in Nat /\ ExistsBijection(D, S)
  BY FS_CardinalityType
<1>2. PICK g \in [D -> S] : IsInjective(g)
  BY <1>1 DEF ExistsBijection, Bijection, Injection
<1>3. SetToSeq(S) \in [D -> S] /\ IsInjective(SetToSeq(S))
  BY <1>2 DEF SetToSeq
<1> DEFINE f == SetToSeq(S)
<1> HIDE DEF f
<1>4. f \in [D -> S] /\ \A a, b \in D : f[a] = f[b] => a = b
  BY <1>3 DEF f, IsInjective
<1>5. ToSet(f) = S
  <2> DEFINE T == ToSet(f)
  <2>1. T \subseteq S
    BY <1>4 DEF ToSet
  <2>2. f \in Bijection(D, T)
    <3>1. f \in [D -> T]
      BY <1>4 DEF ToSet
    <3>2. \A t \in T : \E s \in D : f[s] = t
      BY <1>4 DEF ToSet
    <3> QED BY <1>4, <3>1, <3>2 DEF Bijection, Injection, Surjection, IsInjective
  <2>3. ExistsBijection(D, T)
    BY <2>2 DEF ExistsBijection
  <2>4. IsFiniteSet(D) /\ Cardinality(D) = n
    BY <1>1, FS_Interval
  <2>5. Cardinality(T) = n
    BY <2>3, <2>4, FS_Bijection
  <2> QED BY <2>1, <2>5, FS_Subset
<1>6. f \in Seq(S)
  BY <1>1, <1>4
<1> QED BY <1>4, <1>5, <1>6 DEF f, Distinct

\* The ports of a Service
PortsOf(s) == {s[i].port : i \in DOMAIN s}

LEMMA Ports ==
    ASSUME NEW s \in OSShapes
    PROVE  /\ Wanted(s) \in Seq(PortNumbers) /\ Distinct(Wanted(s))
           /\ ToSet(Wanted(s)) = PortsOf(s) /\ PortsOf(s) \subseteq PortNumbers
<1>1. /\ s \in Seq([port : Nat \ {0}, nodePort : Nat])
      /\ \A i, j \in DOMAIN s : s[i].port = s[j].port => i = j
  BY OpenStackAssumption
<1>2. PortsOf(s) \subseteq PortNumbers
  BY DEF PortsOf, PortNumbers
<1>3. Wanted(s) = [i \in 1 .. Len(s) |-> s[i].port] /\ Len(s) \in Nat /\ DOMAIN s = 1 .. Len(s)
  BY <1>1 DEF Wanted
<1>4. \A i \in 1 .. Len(s) : s[i].port \in PortNumbers
  BY <1>2, <1>3 DEF PortsOf
<1>5. Wanted(s) \in Seq(PortNumbers)
  BY <1>3, <1>4
<1>6. Distinct(Wanted(s))
  BY <1>1, <1>3 DEF Distinct
<1>7. ToSet(Wanted(s)) = PortsOf(s)
  BY <1>3 DEF ToSet, PortsOf
<1> QED BY <1>2, <1>5, <1>6, <1>7

LEMMA NoPort == 0 \notin PortNumbers
<1> SUFFICES ASSUME NEW s \in OSShapes, NEW i \in DOMAIN s
             PROVE  s[i].port # 0
  BY DEF PortNumbers
<1>1. s \in Seq([port : Nat \ {0}, nodePort : Nat])
  BY OpenStackAssumption
<1>2. s[i] \in [port : Nat \ {0}, nodePort : Nat]
  BY <1>1, Elements, Zenon
<1> QED BY <1>2

(***************************************************************************)
(* The sequences of names in the code                                      *)
(***************************************************************************)
LEMMA One ==
    ASSUME NEW x \in Names, x # "member"
    PROVE  Sorted(<<x>>) /\ ToSet(<<x>>) = {x}
<1> DEFINE s == <<x>>
<1>1. s \in Seq(Names) /\ Len(s) = 1 /\ s[1] = x /\ DOMAIN s = {1}
  OBVIOUS
<1>2. ToSet(s) = {x}
  BY <1>1 DEF ToSet
<1> QED BY <1>1, <1>2 DEF Sorted

LEMMA Two ==
    ASSUME NEW x \in Names, NEW y \in Names, OSRank(x) < OSRank(y), x # "member",
           y = "member" => x = "members", x # "drop_balancer" \/ y # "drop_listener",
           y # "drop_balancer" \/ x # "drop_listener"
    PROVE  Sorted(<<x, y>>) /\ ToSet(<<x, y>>) = {x, y}
<1> DEFINE s == <<x, y>>
<1>1. s \in Seq(Names) /\ Len(s) = 2 /\ s[1] = x /\ s[2] = y /\ DOMAIN s = 1 .. 2
  OBVIOUS
<1>2. ToSet(s) = {x, y}
  BY <1>1 DEF ToSet
<1> HIDE DEF s
<1>3. \A a \in DOMAIN s : a = 1 \/ a = 2
  BY <1>1
<1>4. OSRank(x) \in Nat /\ OSRank(y) \in Nat
  BY OSRanks
<1>5. \A a, b \in DOMAIN s : a < b => OSRank(s[a]) < OSRank(s[b])
  BY <1>1, <1>3
<1> QED BY <1>1, <1>2, <1>3, <1>5 DEF Sorted, s

LEMMA Three ==
    ASSUME NEW x \in Names, NEW y \in Names, NEW z \in Names,
           OSRank(x) < OSRank(y), OSRank(y) < OSRank(z), "member" \notin {x, y, z},
           "drop_balancer" \notin {x, y, z}
    PROVE  Sorted(<<x, y, z>>) /\ ToSet(<<x, y, z>>) = {x, y, z}
<1> DEFINE s == <<x, y, z>>
<1>1. s \in Seq(Names) /\ Len(s) = 3 /\ DOMAIN s = 1 .. 3
  OBVIOUS
<1>2. s[1] = x /\ s[2] = y /\ s[3] = z
  OBVIOUS
<1> HIDE DEF s
<1>3. \A a \in DOMAIN s : a = 1 \/ a = 2 \/ a = 3
  BY <1>1
<1>4. ToSet(s) = {x, y, z}
  BY <1>1, <1>2, <1>3 DEF ToSet
<1>5. OSRank(x) \in Nat /\ OSRank(y) \in Nat /\ OSRank(z) \in Nat
  BY OSRanks
<1>6. \A a, b \in DOMAIN s : a < b => OSRank(s[a]) < OSRank(s[b])
  BY <1>1, <1>2, <1>3, <1>5
<1> QED BY <1>1, <1>2, <1>3, <1>4, <1>6 DEF Sorted, s

LEMMA ManyPortSteps == Sorted(PortSteps) /\ ToSet(PortSteps) = PortWork
<1> DEFINE s == PortSteps
<1>1. s \in Seq(Names)
  BY DEF PortSteps, Names, PortWork
<1>2. Len(s) = 5 /\ DOMAIN s = 1 .. 5
  BY DEF PortSteps
<1>3. s[1] = "listener" /\ s[2] = "pool" /\ s[3] = "members" /\ s[4] = "member" /\ s[5] = "monitor"
  BY DEF PortSteps
<1> HIDE DEF s
<1>4. \A a \in DOMAIN s : a = 1 \/ a = 2 \/ a = 3 \/ a = 4 \/ a = 5
  BY <1>2
<1>5. ToSet(s) = PortWork
  BY <1>2, <1>3, <1>4 DEF ToSet, PortWork
<1>6. \A a \in DOMAIN s : OSRank(s[a]) = a + 3
  BY <1>3, <1>4 DEF OSRank
<1>7. \A a, b \in DOMAIN s : a < b => OSRank(s[a]) < OSRank(s[b])
  BY <1>2, <1>6
<1>8. "drop_balancer" \notin ToSet(s)
  BY <1>5 DEF PortWork
<1> QED BY <1>1, <1>2, <1>3, <1>4, <1>5, <1>7, <1>8 DEF Sorted, s

LEMMA ManyObsoleteSteps == Sorted(ObsoleteSteps) /\ ToSet(ObsoleteSteps) = Obsolete
<1> DEFINE s == ObsoleteSteps
<1>1. s \in Seq(Names)
  BY DEF ObsoleteSteps, Names, Obsolete
<1>2. Len(s) = 4 /\ DOMAIN s = 1 .. 4
  BY DEF ObsoleteSteps
<1>3. s[1] = "drop_monitor" /\ s[2] = "drop_members" /\ s[3] = "drop_pool" /\ s[4] = "drop_listener"
  BY DEF ObsoleteSteps
<1> HIDE DEF s
<1>4. \A a \in DOMAIN s : a = 1 \/ a = 2 \/ a = 3 \/ a = 4
  BY <1>2
<1>5. ToSet(s) = Obsolete
  BY <1>2, <1>3, <1>4 DEF ToSet, Obsolete
<1>6. \A a \in DOMAIN s : OSRank(s[a]) = a + 8
  BY <1>3, <1>4 DEF OSRank
<1>7. \A a, b \in DOMAIN s : a < b => OSRank(s[a]) < OSRank(s[b])
  BY <1>2, <1>6
<1>8. "drop_balancer" \notin ToSet(s)
  BY <1>5 DEF Obsolete
<1> QED BY <1>1, <1>2, <1>3, <1>4, <1>5, <1>7, <1>8 DEF Sorted, s

-----------------------------------------------------------------------------
(***************************************************************************)
(* The plans of the calls                                                  *)
(***************************************************************************)
LEMMA Behind ==
    ASSUME NEW s, NEW t, NEW X, NEW Y, OSPlan(s, X), OSPlan(t, Y),
           \A a \in X, b \in Y : Before(a, b)
    PROVE  OSPlan(s \o t, X \cup Y)
  BY Joins DEF OSPlan

LEMMA Empty == OSPlan(<<>>, {})
<1>1. <<>> \in Seq(OSSteps) /\ DOMAIN <<>> = {}
  OBVIOUS
<1> QED BY <1>1 DEF OSPlan, ToSet, Ordered, Adjacent, Follows

LEMMA ForPorts ==
    ASSUME NEW names, Sorted(names), ToSet(names) \subseteq PortWork \cup Obsolete,
           NEW ports \in Seq(PortNumbers), Distinct(ports)
    PROVE  OSPlan(ForEach(names, ports), ToSet(names) \X ToSet(ports))
<1>1. \A i \in DOMAIN ports : ports[i] \in PortNumbers /\ ports[i] \in PortOrNone
  BY Elements DEF PortOrNone
<1>2. ports \in Seq(PortOrNone)
  BY <1>1, Retyped
<1>3. ToSet(ports) \subseteq PortNumbers
  BY <1>1 DEF ToSet
<1>4. ToSet(names) \X ToSet(ports) \subseteq OSSteps
  BY <1>3 DEF OSSteps
<1> QED BY <1>2, <1>4, Loop

LEMMA ForNone ==
    ASSUME NEW names, Sorted(names), ToSet(names) \cap (PortWork \cup Obsolete) = {}
    PROVE  OSPlan(Once(names), ToSet(names) \X {0})
<1> DEFINE ports == <<0>>
<1>1. ports \in Seq(PortOrNone) /\ DOMAIN ports = {1} /\ ports[1] = 0
  BY DEF PortOrNone
<1>2. Distinct(ports) /\ ToSet(ports) = {0}
  BY <1>1 DEF Distinct, ToSet
<1>3. ToSet(names) \subseteq Names
  <2>1. names \in Seq(Names)
    BY DEF Sorted
  <2> QED BY <2>1, Elements DEF ToSet
<1>4. ToSet(names) \X {0} \subseteq OSSteps
  BY <1>3 DEF OSSteps, Names
<1> HIDE DEF ports
<1>5. OSPlan(ForEach(names, ports), ToSet(names) \X {0})
  BY <1>1, <1>2, <1>4, Loop
<1> QED BY <1>5 DEF Once, ports

\* What a call of EnsureLoadBalancer has to do
EndOfEnsure ==
    {<<"floating", 0>>} \cup IF ManageSecurityGroups THEN {"group", "rules", "port"} \X {0} ELSE {}
ToEnsure(c) ==
    (PortWork \X PortsOf(c.spec)) \cup (Obsolete \X (c.seen \ PortsOf(c.spec))) \cup EndOfEnsure

LEMMA EnsurePlan ==
    ASSUME NEW c, c.spec \in OSShapes, c.seen \subseteq PortNumbers, IsFiniteSet(c.seen)
    PROVE  OSPlan(ensurePlan(c), ToEnsure(c))
<1> DEFINE W == PortsOf(c.spec)
           O == c.seen \ W
           end == IF ManageSecurityGroups THEN Once(<<"group", "rules", "port">>) ELSE <<>>
           E == IF ManageSecurityGroups THEN {"group", "rules", "port"} \X {0} ELSE {}
           A == ForEach(PortSteps, Wanted(c.spec))
           B == ForEach(ObsoleteSteps, InTheWay(c))
           F == Once(<<"floating">>)
<1>1. W \subseteq PortNumbers /\ 0 \notin PortNumbers
  BY Ports, NoPort
<1>2. OSPlan(A, PortWork \X W)
  <2>1. ToSet(PortSteps) \subseteq PortWork \cup Obsolete
    BY ManyPortSteps
  <2> QED BY <2>1, Ports, ManyPortSteps, ForPorts
<1>3. OSPlan(B, Obsolete \X O)
  <2>1. ToSet(ObsoleteSteps) \subseteq PortWork \cup Obsolete
    BY ManyObsoleteSteps
  <2>2. InTheWay(c) = SetToSeq(O)
    BY Ports DEF InTheWay
  <2>3. IsFiniteSet(O)
    BY FS_Subset
  <2>4. InTheWay(c) \in Seq(O) /\ ToSet(InTheWay(c)) = O /\ Distinct(InTheWay(c))
    BY <2>2, <2>3, Enumeration
  <2>5. InTheWay(c) \in Seq(PortNumbers)
    <3>1. O \subseteq PortNumbers
      OBVIOUS
    <3>2. \A i \in DOMAIN InTheWay(c) : InTheWay(c)[i] \in PortNumbers
      BY <2>4, <3>1 DEF ToSet
    <3> QED BY <2>4, <3>2, Retyped
  <2> QED BY <2>1, <2>4, <2>5, ManyObsoleteSteps, ForPorts
<1>4. OSPlan(F, {<<"floating", 0>>})
  <2>1. "floating" \in Names /\ {"floating"} \cap (PortWork \cup Obsolete) = {}
    BY DEF Names, EnsureEnd, PortWork, Obsolete
  <2>2. OSPlan(Once(<<"floating">>), {"floating"} \X {0})
    BY <2>1, One, ForNone
  <2>3. {"floating"} \X {0} = {<<"floating", 0>>}
    OBVIOUS
  <2> QED BY <2>2, <2>3
<1>5. OSPlan(end, E)
  <2>1. CASE ManageSecurityGroups
    <3>1. /\ {"group", "rules", "port"} \subseteq Names
          /\ {"group", "rules", "port"} \cap (PortWork \cup Obsolete) = {}
          /\ OSRank("group") < OSRank("rules") /\ OSRank("rules") < OSRank("port")
      BY DEF Names, EnsureEnd, PortWork, Obsolete, OSRank
    <3>2. Sorted(<<"group", "rules", "port">>) /\ ToSet(<<"group", "rules", "port">>) = {"group", "rules", "port"}
      BY <3>1, Three
    <3> QED BY <2>1, <3>1, <3>2, ForNone
  <2>2. CASE ~ManageSecurityGroups
    BY <2>2, Empty
  <2> QED BY <2>1, <2>2
<1> HIDE DEF A, B, F, end
<1>6. OSPlan(A \o B, (PortWork \X W) \cup (Obsolete \X O))
  <2>1. \A a \in PortWork \X W, b \in Obsolete \X O : Before(a, b)
    BY DEF Before, PortWork
  <2> QED BY <1>2, <1>3, <2>1, Behind
<1>7. OSPlan((A \o B) \o F, ((PortWork \X W) \cup (Obsolete \X O)) \cup {<<"floating", 0>>})
  <2>1. \A a \in (PortWork \X W) \cup (Obsolete \X O), b \in {<<"floating", 0>>} : Before(a, b)
    BY <1>1 DEF Before, PortWork, Obsolete
  <2> QED BY <1>4, <1>6, <2>1, Behind
<1>8. OSPlan(((A \o B) \o F) \o end,
           (((PortWork \X W) \cup (Obsolete \X O)) \cup {<<"floating", 0>>}) \cup E)
  <2>1. \A b \in E : b \in {"group", "rules", "port"} \X {0}
    OBVIOUS
  <2>2. \A a \in ((PortWork \X W) \cup (Obsolete \X O)) \cup {<<"floating", 0>>},
           b \in {"group", "rules", "port"} \X {0} : Before(a, b)
    BY <1>1 DEF Before, PortWork, Obsolete, OSRank
  <2> QED BY <1>5, <1>7, <2>1, <2>2, Behind
<1>9. ensurePlan(c) = ((A \o B) \o F) \o end
  <2>1. A \in Seq(OSSteps) /\ B \in Seq(OSSteps) /\ F \in Seq(OSSteps) /\ end \in Seq(OSSteps)
    BY <1>2, <1>3, <1>4, <1>5 DEF OSPlan
  <2>2. ensurePlan(c) = A \o B \o F \o end
    BY DEF ensurePlan, A, B, F, end
  <2> QED BY <2>1, <2>2
<1>10. ToEnsure(c) = (((PortWork \X W) \cup (Obsolete \X O)) \cup {<<"floating", 0>>}) \cup E
  BY DEF ToEnsure, EndOfEnsure
<1> QED BY <1>8, <1>9, <1>10

\* A call of UpdateLoadBalancer
LEMMA UpdatePlan ==
    ASSUME NEW spec \in OSShapes
    PROVE  OSPlan(ForEach(<<"members", "member">>, Wanted(spec)), {"members", "member"} \X PortsOf(spec))
<1>1. /\ {"members", "member"} \subseteq Names /\ {"members", "member"} \subseteq PortWork
      /\ OSRank("members") < OSRank("member")
  BY DEF Names, PortWork, OSRank
<1>2. Sorted(<<"members", "member">>) /\ ToSet(<<"members", "member">>) = {"members", "member"}
  BY <1>1, Two
<1> QED BY <1>1, <1>2, Ports, ForPorts

\* What a call of EnsureLoadBalancerDeleted has to do
EndOfDelete ==
    {<<"drop_balancer", 0>>}
      \cup IF ManageSecurityGroups THEN {"drop_group", "close_nodes"} \X {0} ELSE {}
ToDrop(ports) == (Obsolete \X ports) \cup EndOfDelete

LEMMA DropPlan ==
    ASSUME NEW S, S \subseteq PortNumbers, IsFiniteSet(S)
    PROVE  OSPlan(DropSteps(SetToSeq(S)), ToDrop(S))
<1> DEFINE ports == SetToSeq(S)
           M == ForEach(<<"drop_monitor">>, ports)
           P == ForEach(<<"drop_members", "drop_pool">>, ports)
           L == ForEach(<<"drop_listener">>, ports)
           B == Once(<<"drop_balancer">>)
           end == IF ManageSecurityGroups THEN Once(<<"drop_group", "close_nodes">>) ELSE <<>>
           E == IF ManageSecurityGroups THEN {"drop_group", "close_nodes"} \X {0} ELSE {}
<1>1. 0 \notin PortNumbers
  BY NoPort
<1>2. ports \in Seq(PortNumbers) /\ Distinct(ports) /\ ToSet(ports) = S
  <2>1. ports \in Seq(S) /\ ToSet(ports) = S /\ Distinct(ports)
    BY Enumeration
  <2>2. \A i \in DOMAIN ports : ports[i] \in PortNumbers
    BY <2>1 DEF ToSet
  <2> QED BY <2>1, <2>2, Retyped
<1> HIDE DEF ports
<1>3. OSPlan(M, {"drop_monitor"} \X S)
  <2>1. "drop_monitor" \in Names /\ {"drop_monitor"} \subseteq PortWork \cup Obsolete
    BY DEF Names, Obsolete
  <2> QED BY <1>2, <2>1, One, ForPorts
<1>4. OSPlan(P, {"drop_members", "drop_pool"} \X S)
  <2>1. /\ {"drop_members", "drop_pool"} \subseteq Names
        /\ {"drop_members", "drop_pool"} \subseteq PortWork \cup Obsolete
        /\ OSRank("drop_members") < OSRank("drop_pool")
    BY DEF Names, Obsolete, OSRank
  <2>2. /\ Sorted(<<"drop_members", "drop_pool">>)
        /\ ToSet(<<"drop_members", "drop_pool">>) = {"drop_members", "drop_pool"}
    BY <2>1, Two
  <2> QED BY <1>2, <2>1, <2>2, ForPorts
<1>5. OSPlan(L, {"drop_listener"} \X S)
  <2>1. "drop_listener" \in Names /\ {"drop_listener"} \subseteq PortWork \cup Obsolete
    BY DEF Names, Obsolete
  <2> QED BY <1>2, <2>1, One, ForPorts
<1>6. OSPlan(B, {<<"drop_balancer", 0>>})
  <2>1. "drop_balancer" \in Names /\ {"drop_balancer"} \cap (PortWork \cup Obsolete) = {}
    BY DEF Names, DeleteEnd, PortWork, Obsolete
  <2>2. OSPlan(B, {"drop_balancer"} \X {0})
    BY <2>1, One, ForNone
  <2>3. {"drop_balancer"} \X {0} = {<<"drop_balancer", 0>>}
    OBVIOUS
  <2> QED BY <2>2, <2>3
<1>7. OSPlan(end, E)
  <2>1. CASE ManageSecurityGroups
    <3>1. /\ {"drop_group", "close_nodes"} \subseteq Names
          /\ {"drop_group", "close_nodes"} \cap (PortWork \cup Obsolete) = {}
          /\ OSRank("drop_group") < OSRank("close_nodes")
      BY DEF Names, DeleteEnd, PortWork, Obsolete, OSRank
    <3>2. /\ Sorted(<<"drop_group", "close_nodes">>)
          /\ ToSet(<<"drop_group", "close_nodes">>) = {"drop_group", "close_nodes"}
      BY <3>1, Two
    <3> QED BY <2>1, <3>1, <3>2, ForNone
  <2>2. CASE ~ManageSecurityGroups
    BY <2>2, Empty
  <2> QED BY <2>1, <2>2
<1> HIDE DEF M, P, L, B, end
<1> DEFINE X1 == ({"drop_monitor"} \X S) \cup ({"drop_members", "drop_pool"} \X S)
           X2 == X1 \cup ({"drop_listener"} \X S)
           X3 == X2 \cup {<<"drop_balancer", 0>>}
<1>8. OSPlan(M \o P, X1)
  <2>1. \A a \in {"drop_monitor"} \X S, b \in {"drop_members", "drop_pool"} \X S : Before(a, b)
    BY DEF Before, OSRank
  <2> QED BY <1>3, <1>4, <2>1, Behind
<1>9. OSPlan((M \o P) \o L, X2)
  <2>1. \A a \in X1, b \in {"drop_listener"} \X S : Before(a, b)
    BY DEF Before, OSRank
  <2> HIDE DEF X1
  <2> QED BY <1>5, <1>8, <2>1, Behind
<1>10. OSPlan(((M \o P) \o L) \o B, X3)
  <2>1. \A a \in X2, b \in {<<"drop_balancer", 0>>} : Before(a, b)
    BY <1>1 DEF Before
  <2> HIDE DEF X2
  <2> QED BY <1>6, <1>9, <2>1, Behind
<1>11. OSPlan((((M \o P) \o L) \o B) \o end, X3 \cup E)
  <2>1. \A b \in E : b \in {"drop_group", "close_nodes"} \X {0}
    OBVIOUS
  <2>2. \A a \in X3, b \in {"drop_group", "close_nodes"} \X {0} : Before(a, b)
    BY <1>1 DEF Before, OSRank
  <2> HIDE DEF X3
  <2> QED BY <1>7, <1>10, <2>1, <2>2, Behind
<1>12. DropSteps(ports) = (((M \o P) \o L) \o B) \o end
  <2>1. /\ M \in Seq(OSSteps) /\ P \in Seq(OSSteps) /\ L \in Seq(OSSteps) /\ B \in Seq(OSSteps)
        /\ end \in Seq(OSSteps)
    BY <1>3, <1>4, <1>5, <1>6, <1>7 DEF OSPlan
  <2>2. DropSteps(ports) = M \o P \o L \o B \o end
    BY DEF DropSteps, M, P, L, B, end
  <2> QED BY <2>1, <2>2
<1>13. X3 \cup E = ToDrop(S)
  BY DEF ToDrop, EndOfDelete, Obsolete
<1> QED BY <1>11, <1>12, <1>13 DEF ports

\* How the calls begin
LEMMA FirstPlans ==
    /\ OSPlan(OSEnsureSteps, EnsureStart \X {0})
    /\ OSPlan(OSUpdateSteps, UpdateStart \X {0})
    /\ OSPlan(OSDeleteSteps, DeleteStart \X {0})
<1>1. OSPlan(OSEnsureSteps, EnsureStart \X {0})
  <2>1. /\ EnsureStart \subseteq Names /\ EnsureStart \cap (PortWork \cup Obsolete) = {}
        /\ OSRank("balancer") < OSRank("listeners")
    BY DEF Names, EnsureStart, PortWork, Obsolete, OSRank
  <2>2. Sorted(<<"balancer", "listeners">>) /\ ToSet(<<"balancer", "listeners">>) = EnsureStart
    BY <2>1, Two DEF EnsureStart
  <2> QED BY <2>1, <2>2, ForNone DEF OSEnsureSteps
<1>2. OSPlan(OSUpdateSteps, UpdateStart \X {0})
  <2>1. UpdateStart \subseteq Names /\ UpdateStart \cap (PortWork \cup Obsolete) = {}
    BY DEF Names, UpdateStart, PortWork, Obsolete
  <2>2. Sorted(<<"find_pools">>) /\ ToSet(<<"find_pools">>) = UpdateStart
    BY <2>1, One DEF UpdateStart
  <2> QED BY <2>1, <2>2, ForNone DEF OSUpdateSteps
<1>3. OSPlan(OSDeleteSteps, DeleteStart \X {0})
  <2>1. /\ DeleteStart \subseteq Names /\ DeleteStart \cap (PortWork \cup Obsolete) = {}
        /\ OSRank("find") < OSRank("drop_floating") /\ OSRank("drop_floating") < OSRank("listeners_to_drop")
    BY DEF Names, DeleteStart, PortWork, Obsolete, OSRank
  <2>2. /\ Sorted(<<"find", "drop_floating", "listeners_to_drop">>)
        /\ ToSet(<<"find", "drop_floating", "listeners_to_drop">>) = DeleteStart
    BY <2>1, Three DEF DeleteStart
  <2> QED BY <2>1, <2>2, ForNone DEF OSDeleteSteps
<1> QED BY <1>1, <1>2, <1>3

-----------------------------------------------------------------------------
(***************************************************************************)
(* The values of the resources, and of a call                              *)
(***************************************************************************)
OSOps == {"ensure", "update", "delete"}

Members  == BalancerNodes \X NodePorts
OSPools  == [exists : BOOLEAN, members : SUBSET Members, monitor : BOOLEAN]
OSClouds == [lb : BOOLEAN, listeners : SUBSET PortNumbers, pools : [PortNumbers -> OSPools],
             floating : BOOLEAN, groups : Nat, open : BOOLEAN]

OSAnswers == [spec : OSShapes, ensured : BOOLEAN, by : OSOps \cup {"none"},
              nodes : SUBSET BalancerNodes, asked : SUBSET BalancerNodes,
              known : SUBSET BalancerNodes, answer : {"none"}]

OSCalls == [op : OSOps, steps : Seq(OSSteps), deferred : {<<>>, OSDeleteSteps}, failed : BOOLEAN,
            spec : OSShapes, nodes : SUBSET BalancerNodes, asked : SUBSET BalancerNodes,
            seen : SUBSET PortNumbers,
            todo : SUBSET (Members \X {"create", "delete"}), answer : {"none"}]

OSTypes ==
    /\ want \in [present : BOOLEAN, spec : OSShapes, nodes : SUBSET BalancerNodes]
    /\ synced \in OSAnswers
    /\ cloud \in OSClouds /\ IsFiniteSet(cloud.listeners)
    /\ \/ call = NoCall
       \/ call \in OSCalls /\ call.steps /= <<>> /\ IsFiniteSet(call.seen)

(***************************************************************************)
(* What holds of the load balancer x whatever has run                      *)
(***************************************************************************)
OSStanding(x) ==
    /\ x.listeners /= {} \/ x.floating => x.lb
    /\ \A p \in PortNumbers : x.pools[p] /= NoneYet => p \in x.listeners /\ x.pools[p].exists

OSFitsIn(x, s) ==
    /\ x.lb /\ x.floating
    /\ x.listeners = PortsOf(s)
    /\ \A p \in x.listeners : x.pools[p].exists /\ x.pools[p].monitor

MembersAre(x, s, nodes) ==
    \A i \in DOMAIN s : x.pools[s[i].port].members = nodes \X {s[i].nodePort}

(***************************************************************************)
(* What a call c has made of the load balancer x, if the steps in left are *)
(* left to it                                                              *)
(***************************************************************************)
Difference(is, members) == ((members \ is) \X {"create"}) \cup ((is \ members) \X {"delete"})

MemberMade(c, left, is, k) ==
    LET members == c.nodes \X {k.nodePort}
    IN  \/ <<"members", k.port>> \in left /\ <<"member", k.port>> \in left
        \/ <<"member", k.port>> \in left /\ c.todo = Difference(is, members)
        \/ <<"member", k.port>> \notin left /\ is = members

MembersMade(c, left, x) ==
    \A i \in DOMAIN c.spec : MemberMade(c, left, x.pools[c.spec[i].port].members, c.spec[i])

Ensuring(c, left, x) ==
    /\ c.op = "ensure" /\ ~c.failed
    /\ <<"group", 0>> \in left => c.deferred = <<>>
    /\ left \subseteq ToEnsure(c)
    /\ x.lb
    /\ x.floating \/ <<"floating", 0>> \in left
    /\ \A p \in PortsOf(c.spec) :
         /\ p \in x.listeners \/ (p \notin c.seen /\ <<"listener", p>> \in left)
         /\ x.pools[p].exists \/ <<"pool", p>> \in left
         /\ x.pools[p].monitor \/ <<"monitor", p>> \in left
    /\ MembersMade(c, left, x)
    /\ \A p \in x.listeners : p \in PortsOf(c.spec) \/ <<"drop_listener", p>> \in left
    /\ \A p \in PortNumbers :
         <<"drop_listener", p>> \in left => x.pools[p] = NoneYet \/ <<"drop_pool", p>> \in left

\* A call that deletes: one asked to, or one that cleans up behind a failure
Deleting(c) == c.deferred = <<>> /\ (c.op = "delete" \/ (c.op = "ensure" /\ c.failed))

Dropping(c, left, x) ==
    /\ Deleting(c)
    /\ left \subseteq ToDrop(x.listeners)
    /\ ~x.floating
    /\ \A p \in x.listeners :
         <<"drop_listener", p>> \in left /\ (x.pools[p] = NoneYet \/ <<"drop_pool", p>> \in left)

StartingEnsure(c, left, x) ==
    /\ c.op = "ensure" /\ ~c.failed /\ c.deferred = <<>>
    /\ left \subseteq EnsureStart \X {0} /\ <<"listeners", 0>> \in left
    /\ x.lb \/ <<"balancer", 0>> \in left

StartingUpdate(c, left) ==
    /\ c.op = "update" /\ ~c.failed /\ c.deferred = <<>>
    /\ left = UpdateStart \X {0}

Updating(c, left, x) ==
    /\ c.op = "update" /\ ~c.failed /\ c.deferred = <<>>
    /\ left \subseteq {"members", "member"} \X PortsOf(c.spec)
    /\ MembersMade(c, left, x)

StartingDelete(c, left, x) ==
    /\ Deleting(c)
    /\ left \subseteq DeleteStart \X {0} /\ <<"listeners_to_drop", 0>> \in left
    /\ ~x.floating \/ <<"drop_floating", 0>> \in left

Progress(c, left, x) ==
    \/ StartingEnsure(c, left, x) \/ Ensuring(c, left, x)
    \/ StartingUpdate(c, left)    \/ Updating(c, left, x)
    \/ StartingDelete(c, left, x) \/ Dropping(c, left, x)

(***************************************************************************)
(* The inductive invariant                                                 *)
(***************************************************************************)
OSAgreed(x, y) ==
    y.ensured => /\ OSFitsIn(x, y.spec)
                 /\ y.by /= "delete"
                 /\ y.by /= "none" => MembersAre(x, y.spec, y.nodes)

OSInv ==
    /\ OSTypes
    /\ OSStanding(cloud) /\ OSAgreed(cloud, synced)
    /\ ~Idle => /\ Ordered(call.steps) /\ Follows(call.steps)
                /\ Progress(call, ToSet(call.steps), cloud)
                /\ synced.by = "none"
                /\ synced.ensured = (call.op = "update")
                /\ call.op = "update" => call.spec = synced.spec

OSHolds == provider = "openstack" => OSInv

-----------------------------------------------------------------------------
(***************************************************************************)
(* How a step of a call goes on, or fails                                  *)
(***************************************************************************)
\* A request may leave this.
OSGood(x) ==
    /\ x \in OSClouds /\ IsFiniteSet(x.listeners) /\ OSStanding(x)
    /\ call.op = "update" => OSFitsIn(x, synced.spec)

\* A call that knows more, or the same
OSContinues(c) ==
    /\ c \in OSCalls /\ IsFiniteSet(c.seen)
    /\ c.op = call.op /\ c.spec = call.spec /\ c.nodes = call.nodes /\ c.failed = call.failed
    /\ Len(c.steps) > 0 /\ Ordered(c.steps) /\ Follows(c.steps)

\* What the next step may leave of a call
OSAdvances(c, x) ==
    \/ Progress(c, ToSet(Tail(c.steps)), x)
    \/ ~(Len(c.steps) > 1) /\ (c.op = "delete" \/ c.failed)

LEMMA OSRunning ==
    ASSUME OSInv, ~Idle
    PROVE  /\ call \in OSCalls /\ OSContinues(call) /\ OSGood(cloud)
           /\ Progress(call, ToSet(call.steps), cloud)
           /\ call.op \in OSOps /\ call.spec \in OSShapes
           /\ synced \in OSAnswers /\ synced.by = "none"
           /\ want \in [present : BOOLEAN, spec : OSShapes, nodes : SUBSET BalancerNodes]
           /\ call.op = "update" => call.spec = synced.spec /\ synced.ensured
           /\ call.op /= "update" => ~synced.ensured
<1>1. call \in OSCalls /\ IsFiniteSet(call.seen) /\ call.steps /= <<>>
  BY DEF OSInv, OSTypes, Idle, NoCall
<1>2. Len(call.steps) > 0
  <2>1. call.steps \in Seq(OSSteps)
    BY <1>1 DEF OSCalls
  <2> QED BY <1>1, <2>1
<1>3. OSContinues(call)
  BY <1>1, <1>2 DEF OSInv, OSContinues
<1>4. call.op \in OSOps /\ call.spec \in OSShapes
  BY <1>1 DEF OSCalls
<1> QED BY <1>1, <1>3, <1>4 DEF OSInv, OSTypes, OSGood, OSAgreed

LEMMA Fields ==
    ASSUME NEW c \in OSCalls, NEW d \in OSCalls, NEW left, NEW x,
           c.op = d.op, c.failed = d.failed, c.deferred = d.deferred, c.spec = d.spec,
           c.nodes = d.nodes, c.seen = d.seen, c.todo = d.todo, Progress(c, left, x)
    PROVE  Progress(d, left, x)
<1>1. ToEnsure(c) = ToEnsure(d)
  BY DEF ToEnsure
<1>2. MembersMade(c, left, x) = MembersMade(d, left, x)
  BY DEF MembersMade, MemberMade
<1>3. Deleting(c) = Deleting(d)
  BY DEF Deleting
<1>4. Ensuring(c, left, x) => Ensuring(d, left, x)
  BY <1>1, <1>2 DEF Ensuring
<1> QED BY <1>2, <1>3, <1>4 DEF Progress, StartingEnsure, StartingUpdate, Updating, StartingDelete,
                                Dropping

\* A step fails.
LEMMA Failing ==
    ASSUME OSInv, ~Idle, OSGood(cloud'), want' = want, Fails
    PROVE  OSInv'
<1>1. /\ call \in OSCalls /\ synced' = synced /\ synced \in OSAnswers /\ synced.by = "none"
      /\ synced.ensured = (call.op = "update")
      /\ call.op = "update" => call.spec = synced.spec
      /\ want \in [present : BOOLEAN, spec : OSShapes, nodes : SUBSET BalancerNodes]
      /\ IsFiniteSet(call.seen)
  BY OSRunning DEF Fails, OSInv, OSContinues
<1>2. OSStanding(cloud)' /\ OSAgreed(cloud, synced)' /\ cloud' \in OSClouds /\ IsFiniteSet(cloud'.listeners)
  BY <1>1 DEF OSGood, OSAgreed
<1>3. CASE call.deferred = <<>>
  <2>1. call' = NoCall /\ Idle'
    BY <1>3 DEF Fails, NoCall, Idle
  <2> QED BY <1>1, <1>2, <2>1 DEF OSInv, OSTypes
<1>4. CASE call.deferred # <<>>
  <2>1. call.deferred = OSDeleteSteps
    BY <1>1, <1>4 DEF OSCalls
  <2>2. call' = [call EXCEPT !.steps = OSDeleteSteps, !.deferred = <<>>, !.failed = TRUE]
    BY <1>4, <2>1 DEF Fails
  <2>3. Ensuring(call, ToSet(call.steps), cloud)
    BY <1>4, OSRunning DEF Progress, StartingEnsure, StartingUpdate, Updating, StartingDelete,
                         Dropping, Deleting
  <2>4. /\ OSDeleteSteps \in Seq(OSSteps) /\ Ordered(OSDeleteSteps) /\ Follows(OSDeleteSteps)
        /\ ToSet(OSDeleteSteps) = DeleteStart \X {0}
    BY FirstPlans DEF OSPlan, Adjacent
  <2>5. /\ call' \in OSCalls /\ call'.op = "ensure" /\ call'.failed /\ call'.deferred = <<>>
        /\ call'.steps = OSDeleteSteps /\ call'.seen = call.seen /\ call'.spec = call.spec
    BY <1>1, <2>2, <2>3, <2>4 DEF OSCalls, Ensuring
  <2>6. Progress(call, ToSet(call.steps), cloud)'
    <3>1. <<"listeners_to_drop", 0>> \in DeleteStart \X {0} /\ <<"drop_floating", 0>> \in DeleteStart \X {0}
      BY DEF DeleteStart
    <3> QED BY <2>4, <2>5, <3>1 DEF Progress, StartingDelete, Deleting
  <2>7. call'.steps # <<>>
    <3>1. ToSet(<<>>) = {}
      BY DEF ToSet
    <3>2. <<"find", 0>> \in ToSet(OSDeleteSteps)
      BY <2>4 DEF DeleteStart
    <3> QED BY <2>5, <3>1, <3>2
  <2>8. call.op = "ensure"
    BY <2>3 DEF Ensuring
  <2> QED BY <1>1, <1>2, <2>4, <2>5, <2>6, <2>7, <2>8 DEF OSInv, OSTypes, Idle
<1> QED BY <1>3, <1>4

\* Nothing is left for a call to do.
LEMMA Ending ==
    ASSUME OSInv, ~Idle, NEW c, OSContinues(c), c.steps # <<>>, NEW x, Progress(c, {}, x), ~c.failed,
           c.op # "delete"
    PROVE  /\ c.op = "ensure" => OSFitsIn(x, c.spec)
           /\ MembersAre(x, c.spec, c.nodes)
<1>1. Ensuring(c, {}, x) \/ Updating(c, {}, x)
  <2>1. <<"find_pools", 0>> \in UpdateStart \X {0}
    BY DEF UpdateStart
  <2>2. ~Deleting(c)
    BY DEF Deleting
  <2> QED BY <2>1, <2>2 DEF Progress, StartingEnsure, StartingUpdate, StartingDelete, Dropping
<1>2. MembersMade(c, {}, x)
  BY <1>1 DEF Ensuring, Updating
<1>3. MembersAre(x, c.spec, c.nodes)
  BY <1>2 DEF MembersMade, MemberMade, MembersAre
<1>4. ASSUME c.op = "ensure" PROVE OSFitsIn(x, c.spec)
  <2>1. Ensuring(c, {}, x)
    BY <1>1, <1>4 DEF Updating
  <2> QED BY <2>1 DEF Ensuring, OSFitsIn
<1> QED BY <1>3, <1>4

\* A step goes on.
LEMMA Going ==
    ASSUME OSInv, ~Idle, NEW c, OSContinues(c), OSGood(cloud'), want' = want, OSAdvances(c, cloud'), Proceed(c)
    PROVE  OSInv'
<1>1. /\ call \in OSCalls /\ synced \in OSAnswers /\ synced.by = "none"
      /\ synced.ensured = (call.op = "update")
      /\ call.op = "update" => call.spec = synced.spec
      /\ want \in [present : BOOLEAN, spec : OSShapes, nodes : SUBSET BalancerNodes]
  BY OSRunning DEF OSInv
<1>2. c \in OSCalls /\ c.steps \in Seq(OSSteps) /\ Len(c.steps) > 0 /\ Len(c.steps) \in Nat
  BY DEF OSContinues, OSCalls
<1>3. OSStanding(cloud)' /\ cloud' \in OSClouds /\ IsFiniteSet(cloud'.listeners)
  BY DEF OSGood
<1> PICK s \in Seq(OSSteps) : s = c.steps
  BY <1>2
<1>0. Len(s) \in Nat \ {0} /\ Ordered(s) /\ Follows(s)
  BY <1>2 DEF OSContinues
<1>4. CASE Len(s) > 1
  <2>1. call' = [c EXCEPT !.steps = Tail(s)] /\ synced' = synced
    BY <1>4 DEF Proceed
  <2>2. Tail(s) \in Seq(OSSteps) /\ Ordered(Tail(s)) /\ Follows(Tail(s))
    BY <1>0, Tails
  <2>8. Tail(s) # <<>>
    <3>1. Len(Tail(s)) = Len(s) - 1 /\ Len(<<>>) = 0
      BY <1>0
    <3> QED BY <1>0, <1>4, <3>1
  <2>3. /\ call' \in OSCalls /\ call'.steps = Tail(s)
        /\ c.op = call'.op /\ c.failed = call'.failed /\ c.deferred = call'.deferred
        /\ c.spec = call'.spec /\ c.nodes = call'.nodes /\ c.seen = call'.seen
        /\ c.todo = call'.todo
    BY <1>2, <2>1, <2>2 DEF OSCalls
  <2>4. Progress(c, ToSet(Tail(s)), cloud')
    BY <1>4 DEF OSAdvances
  <2>5. Progress(call, ToSet(call.steps), cloud)'
    BY <1>2, <2>3, <2>4, Fields
  <2>6. OSAgreed(cloud, synced)'
    BY <1>1, <2>1 DEF OSGood, OSAgreed
  <2>7. call'.op = call.op /\ call'.spec = call.spec /\ IsFiniteSet(call'.seen)
    BY <2>3 DEF OSContinues
  <2> QED BY <1>1, <1>3, <2>1, <2>2, <2>3, <2>5, <2>6, <2>7, <2>8 DEF OSInv, OSTypes, Idle
<1>5. CASE ~(Len(s) > 1)
  <2>1. c.failed => call' = NoCall /\ synced' = synced
    BY <1>5 DEF Proceed
  <2>2. ~c.failed => Succeeds
    BY <1>5 DEF Proceed
  <2>3. CASE c.failed
    <3>1. OSAgreed(cloud, synced)'
      BY <1>1, <2>1, <2>3 DEF OSGood, OSAgreed
    <3> QED BY <1>1, <1>3, <2>1, <2>3, <3>1 DEF OSInv, OSTypes, Idle, NoCall
  <2>4. CASE ~c.failed
    <3>1. /\ call' = NoCall /\ synced'.ensured = (call.op # "delete") /\ synced'.by = call.op
          /\ synced'.nodes = call.nodes
          /\ synced'.spec = (IF call.op = "update" THEN synced.spec ELSE call.spec)
      BY <2>2, <2>4 DEF Succeeds
    <3>2. synced' \in OSAnswers
      <4>1. /\ call.op \in OSOps /\ call.spec \in OSShapes /\ call.nodes \in SUBSET BalancerNodes
            /\ call.asked \in SUBSET BalancerNodes /\ call.answer = "none"
        BY <1>1 DEF OSCalls
      <4>2. /\ synced.spec \in OSShapes /\ synced.known \in SUBSET BalancerNodes
            /\ synced.answer = "none"
        BY <1>1 DEF OSAnswers
      <4>3. synced'.answer = "none"
        BY <2>2, <2>4, <4>1, <4>2 DEF Succeeds, OSOps
      <4>4. /\ DOMAIN synced' = {"spec", "ensured", "by", "nodes", "asked", "known", "answer"}
            /\ synced' = [spec |-> synced'.spec, ensured |-> synced'.ensured, by |-> synced'.by,
                          nodes |-> synced'.nodes, asked |-> synced'.asked,
                          known |-> synced'.known, answer |-> synced'.answer]
        BY <2>2, <2>4 DEF Succeeds
      <4>5. synced'.known \in SUBSET BalancerNodes /\ synced'.asked \in SUBSET BalancerNodes
        BY <2>2, <2>4, <4>1, <4>2 DEF Succeeds
      <4>6. synced'.spec \in OSShapes /\ synced'.ensured \in BOOLEAN
        BY <3>1, <4>1, <4>2
      <4> QED BY <3>1, <4>1, <4>3, <4>4, <4>5, <4>6 DEF OSAnswers
    <3>3. OSAgreed(cloud, synced)'
      <4> SUFFICES ASSUME call.op # "delete" PROVE OSAgreed(cloud', synced')
        BY <3>1 DEF OSAgreed
      <4>1. c.op = call.op /\ c.spec = call.spec /\ c.nodes = call.nodes
        BY DEF OSContinues
      <4>2. Progress(c, {}, cloud')
        <5>2. Tail(s) = <<>>
          BY ONLY s \in Seq(OSSteps), <1>5
        <5>3. ToSet(<<>>) = {}
          BY DEF ToSet
        <5> QED BY <2>4, <4>1, <5>2, <5>3 DEF OSAdvances
      <4>3. s # <<>>
        BY <1>0
      <4>4. /\ c.op = "ensure" => OSFitsIn(cloud', c.spec)
            /\ MembersAre(cloud', c.spec, c.nodes)
        BY <2>4, <4>1, <4>2, <4>3, Ending
      <4>5. call.op \in {"ensure", "update"}
        BY <1>1 DEF OSCalls, OSOps
      <4> QED BY <1>1, <3>1, <4>1, <4>4, <4>5 DEF OSAgreed, OSGood
    <3> QED BY <1>1, <1>3, <3>1, <3>2, <3>3 DEF OSInv, OSTypes, Idle, NoCall
  <2> QED BY <2>3, <2>4
<1> QED BY <1>4, <1>5

\* The step makes x of the load balancer, or fails, and then perhaps does not.
Acts(x, c) ==
    \/ cloud' = x /\ Proceed(c)
    \/ cloud' \in {cloud, x} /\ Fails

LEMMA OSRequests ==
    ASSUME NEW x, NEW c, NEW needed \in BOOLEAN
    PROVE  /\ Request(x, c) => Acts(x, c)
           /\ Read(c) => Acts(cloud, c)
           /\ Make(needed, x) => Acts(IF needed THEN x ELSE cloud, call)
           /\ RequestIf(needed, x, c) => Acts(IF needed THEN x ELSE cloud, c)
  BY DEF Request, Read, Make, RequestIf, NoRequest, Acts

LEMMA Acting ==
    ASSUME OSInv, ~Idle, want' = want, NEW c, OSContinues(c), NEW x, Acts(x, c), OSGood(x),
           OSAdvances(c, x)
    PROVE  OSInv'
<1>1. CASE cloud' = x /\ Proceed(c)
  BY <1>1, Going
<1>2. CASE cloud' \in {cloud, x} /\ Fails
  <2>1. OSGood(cloud')
    BY <1>2, OSRunning
  <2> QED BY <1>2, <2>1, Failing
<1> QED BY <1>1, <1>2 DEF Acts

(***************************************************************************)
(* The place of a call: what its next step is for, and what is behind it   *)
(***************************************************************************)
OSLeft == ToSet(call.steps)
OSRest == ToSet(Tail(call.steps))
step == Head(call.steps)

LEMMA OSHere ==
    ASSUME OSInv, ~Idle
    PROVE  /\ step \in OSSteps /\ step \in OSLeft /\ step = <<step[1], port>> /\ step[1] \in Names
           /\ step[1] \in PortWork \cup Obsolete => port \in PortNumbers
           /\ step[1] \notin PortWork \cup Obsolete => port = 0
           /\ OSRest = OSLeft \ {step}
           /\ \A b \in OSRest : Before(step, b)
           /\ call.steps \in Seq(OSSteps) /\ Len(call.steps) > 0
           /\ step = call.steps[1]
<1>1. call.steps \in Seq(OSSteps) /\ Len(call.steps) > 0 /\ Ordered(call.steps)
  BY OSRunning DEF OSContinues, OSCalls
<1>2. /\ step = call.steps[1] /\ step \in OSSteps /\ step \in OSLeft
      /\ OSRest = OSLeft \ {step}
      /\ \A b \in OSRest : Before(step, b)
  BY <1>1, Tails DEF step, OSLeft, OSRest
<1>3. step[2] = port
  BY DEF step, port
<1> QED BY <1>1, <1>2, <1>3, OSStepTypes

\* What comes earlier for the same port is done.
LEMMA Earlier ==
    ASSUME OSInv, ~Idle, NEW name \in Names, OSRank(name) < OSRank(step[1])
    PROVE  <<name, port>> \notin OSLeft
<1>1. OSRank(name) \in Nat /\ OSRank(step[1]) \in Nat
  BY OSHere, OSRanks
<1>2. ~(OSRank(step[1]) < OSRank(name)) /\ OSRank(name) # OSRank(step[1])
  BY <1>1
<1>3. <<name, port>> \notin OSRest
  <2>1. <<name, port>>[1] = name /\ <<name, port>>[2] = step[2]
    BY DEF step, port
  <2> QED BY <1>2, <2>1, OSHere DEF Before
<1>4. <<name, port>> # step
  <2>1. name # step[1]
    BY <1>2
  <2> QED BY <2>1, OSHere
<1> QED BY <1>3, <1>4, OSHere

\* Which part of a call the step belongs to
LEMMA Parts ==
    ASSUME OSInv, ~Idle
    PROVE  /\ step[1] \in EnsureStart => StartingEnsure(call, OSLeft, cloud)
           /\ step[1] \in PortWork =>
                /\ port \in PortsOf(call.spec)
                /\ \/ Ensuring(call, OSLeft, cloud)
                   \/ step[1] \in {"members", "member"} /\ Updating(call, OSLeft, cloud)
           /\ step[1] \in EnsureEnd => Ensuring(call, OSLeft, cloud)
           /\ step[1] \in Obsolete =>
                \/ Ensuring(call, OSLeft, cloud) /\ port \in call.seen \ PortsOf(call.spec)
                \/ Dropping(call, OSLeft, cloud) /\ port \in cloud.listeners
           /\ step[1] \in UpdateStart => StartingUpdate(call, OSLeft)
           /\ step[1] \in DeleteStart => StartingDelete(call, OSLeft, cloud)
           /\ step[1] \in DeleteEnd => Dropping(call, OSLeft, cloud)
<1>1. step \in OSLeft /\ step = <<step[1], port>>
  BY OSHere
<1>2. Progress(call, OSLeft, cloud)
  BY OSRunning DEF OSLeft
<1>3. CASE StartingEnsure(call, OSLeft, cloud)
  <2>1. step[1] \in EnsureStart
    BY <1>1, <1>3 DEF StartingEnsure
  <2> QED BY <1>3, <2>1 DEF EnsureStart, PortWork, EnsureEnd, Obsolete, UpdateStart, DeleteStart, DeleteEnd
<1>4. CASE Ensuring(call, OSLeft, cloud)
  <2>1. step \in ToEnsure(call)
    BY <1>1, <1>4 DEF Ensuring
  <2>2. \/ step[1] \in PortWork /\ port \in PortsOf(call.spec)
        \/ step[1] \in Obsolete /\ port \in call.seen \ PortsOf(call.spec)
        \/ step[1] \in EnsureEnd
    BY <1>1, <2>1 DEF ToEnsure, EndOfEnsure, EnsureEnd
  <2> QED BY <1>4, <2>2 DEF EnsureStart, PortWork, EnsureEnd, Obsolete, UpdateStart, DeleteStart, DeleteEnd
<1>5. CASE StartingUpdate(call, OSLeft)
  <2>1. step[1] \in UpdateStart
    BY <1>1, <1>5 DEF StartingUpdate
  <2> QED BY <1>5, <2>1 DEF EnsureStart, PortWork, EnsureEnd, Obsolete, UpdateStart, DeleteStart, DeleteEnd
<1>6. CASE Updating(call, OSLeft, cloud)
  <2>1. step[1] \in {"members", "member"} /\ port \in PortsOf(call.spec)
    BY <1>1, <1>6 DEF Updating
  <2> QED BY <1>6, <2>1 DEF EnsureStart, PortWork, EnsureEnd, Obsolete, UpdateStart, DeleteStart, DeleteEnd
<1>7. CASE StartingDelete(call, OSLeft, cloud)
  <2>1. step[1] \in DeleteStart
    BY <1>1, <1>7 DEF StartingDelete
  <2> QED BY <1>7, <2>1 DEF EnsureStart, PortWork, EnsureEnd, Obsolete, UpdateStart, DeleteStart, DeleteEnd
<1>8. CASE Dropping(call, OSLeft, cloud)
  <2>1. step \in ToDrop(cloud.listeners)
    BY <1>1, <1>8 DEF Dropping
  <2>2. \/ step[1] \in Obsolete /\ port \in cloud.listeners
        \/ step[1] \in DeleteEnd
    BY <1>1, <2>1 DEF ToDrop, EndOfDelete, DeleteEnd
  <2> QED BY <1>8, <2>2 DEF EnsureStart, PortWork, EnsureEnd, Obsolete, UpdateStart, DeleteStart, DeleteEnd
<1> QED BY <1>2, <1>3, <1>4, <1>5, <1>6, <1>7, <1>8 DEF Progress

-----------------------------------------------------------------------------
(***************************************************************************)
(* The steps of EnsureLoadBalancer                                         *)
(***************************************************************************)
\* Another pool for the port
Repooled(x, q) ==
    /\ x \in OSClouds /\ IsFiniteSet(x.listeners) /\ OSStanding(x)
    /\ x.lb = cloud.lb /\ x.listeners = cloud.listeners /\ x.floating = cloud.floating
    /\ x.pools[port] = q
    /\ \A p \in PortNumbers : p /= port => x.pools[p] = cloud.pools[p]

LEMMA Repools ==
    ASSUME OSInv, ~Idle, port \in PortNumbers, NEW q \in OSPools,
           NEW x, x = [cloud EXCEPT !.pools[port] = q],
           q # NoneYet => port \in cloud.listeners /\ q.exists
    PROVE  Repooled(x, q)
<1>1. cloud \in OSClouds /\ IsFiniteSet(cloud.listeners) /\ OSStanding(cloud)
  BY DEF OSInv, OSTypes
<1>2. /\ x.lb = cloud.lb /\ x.listeners = cloud.listeners /\ x.floating = cloud.floating
      /\ x.groups = cloud.groups /\ x.open = cloud.open
      /\ x.pools = [cloud.pools EXCEPT ![port] = q]
  BY <1>1 DEF OSClouds
<1>3. cloud.pools \in [PortNumbers -> OSPools]
  BY <1>1 DEF OSClouds
<1>4. /\ x.pools \in [PortNumbers -> OSPools] /\ x.pools[port] = q
      /\ \A p \in PortNumbers : p # port => x.pools[p] = cloud.pools[p]
  BY <1>2, <1>3
<1>5. x \in OSClouds
  BY <1>1, <1>4 DEF OSClouds
<1>6. OSStanding(x)
  BY <1>1, <1>2, <1>4 DEF OSStanding
<1> QED BY <1>1, <1>2, <1>4, <1>5, <1>6 DEF Repooled

\* The balancer
LEMMA OSBalancerStep ==
    ASSUME OSInv, want' = want, ensureLoadBalancer
    PROVE  OSInv'
<1> DEFINE x == IF ~cloud.lb THEN [cloud EXCEPT !.lb = TRUE] ELSE cloud
<1>1. ~Idle /\ step[1] = "balancer"
  BY DEF ensureLoadBalancer, On, step
<1>2. cloud \in OSClouds /\ IsFiniteSet(cloud.listeners) /\ OSStanding(cloud)
  BY DEF OSInv, OSTypes
<1>3. Acts(x, call)
  <2>1. (~cloud.lb) \in BOOLEAN
    OBVIOUS
  <2> QED BY <2>1, OSRequests DEF ensureLoadBalancer
<1>4. StartingEnsure(call, OSLeft, cloud) /\ step = <<"balancer", 0>>
  BY <1>1, OSHere, Parts DEF EnsureStart, PortWork, Obsolete
<1>5. OSGood(x)
  <2>1. x \in OSClouds
    BY <1>2 DEF OSClouds
  <2>2. x.lb /\ x.listeners = cloud.listeners /\ x.pools = cloud.pools /\ x.floating = cloud.floating
    BY <1>2 DEF OSClouds
  <2>3. OSStanding(x)
    BY <1>2, <2>2 DEF OSStanding
  <2> QED BY <1>2, <1>4, <2>1, <2>2, <2>3 DEF OSGood, StartingEnsure
<1>6. OSAdvances(call, x)
  <2>1. x.lb
    BY <1>2 DEF OSClouds
  <2>2. StartingEnsure(call, OSRest, x)
    BY <1>1, <1>4, <2>1, OSHere DEF StartingEnsure
  <2> QED BY <2>2 DEF OSAdvances, Progress, OSRest
<1> HIDE DEF x
<1> QED BY <1>1, <1>3, <1>5, <1>6, OSRunning, Acting

\* The listeners are read, and the steps for the ports planned.
LEMMA ListenersStep ==
    ASSUME OSInv, want' = want, getListeners
    PROVE  OSInv'
<1> DEFINE c == [call EXCEPT !.seen = cloud.listeners]
           d == [c EXCEPT !.steps = c.steps \o ensurePlan(c)]
<1>1. ~Idle /\ step[1] = "listeners"
  BY DEF getListeners, On, step
<1>2. cloud \in OSClouds /\ IsFiniteSet(cloud.listeners) /\ OSGood(cloud)
  BY <1>1, OSRunning DEF OSInv, OSTypes
<1>3. StartingEnsure(call, OSLeft, cloud) /\ step = <<"listeners", 0>>
  BY <1>1, OSHere, Parts DEF EnsureStart, PortWork, Obsolete
<1>4. OSLeft = {<<"listeners", 0>>} /\ cloud.lb
  <2>1. <<"balancer", 0>> \notin OSLeft
    <3>1. "balancer" \in Names /\ OSRank("balancer") < OSRank(step[1]) /\ port = 0
      BY <1>1, OSHere DEF Names, EnsureStart, OSRank, PortWork, Obsolete
    <3> QED BY <1>1, <3>1, Earlier
  <2> QED BY <1>3, <2>1 DEF StartingEnsure, EnsureStart
<1>5. /\ call \in OSCalls /\ c \in OSCalls /\ c.steps = call.steps /\ c.spec = call.spec
      /\ c.spec \in OSShapes /\ c.seen = cloud.listeners /\ c.seen \subseteq PortNumbers
      /\ c.op = "ensure" /\ ~c.failed /\ c.deferred = <<>>
  BY <1>1, <1>2, <1>3, OSRunning DEF OSCalls, OSClouds, StartingEnsure
<1>6. OSPlan(ensurePlan(c), ToEnsure(c))
  BY <1>2, <1>5, EnsurePlan
<1> DEFINE s == call.steps \o ensurePlan(c)
<1>7. /\ s \in Seq(OSSteps) /\ Len(s) > 0 /\ Ordered(s) /\ Follows(s)
      /\ ToSet(s) = OSLeft \cup ToEnsure(c) /\ Head(s) = step
  <2>1. call.steps \in Seq(OSSteps) /\ Ordered(call.steps) /\ Follows(call.steps) /\ Len(call.steps) > 0
    BY <1>1, OSRunning DEF OSContinues, OSCalls
  <2>2. \A a \in ToSet(call.steps), b \in ToEnsure(c) : Before(a, b)
    <3>1. \A b \in ToEnsure(c) : b[2] = 0 => b[1] \in EnsureEnd
      <4>1. PortsOf(c.spec) \subseteq PortNumbers /\ 0 \notin PortNumbers
        BY <1>5, Ports, NoPort
      <4> QED BY <1>5, <4>1 DEF ToEnsure, EndOfEnsure, EnsureEnd
    <3>2. \A x \in EnsureEnd : OSRank("listeners") < OSRank(x)
      BY DEF EnsureEnd, OSRank
    <3> QED BY <1>4, <3>1, <3>2 DEF Before, OSLeft
  <2>3. /\ s \in Seq(OSSteps) /\ Len(s) = Len(call.steps) + Len(ensurePlan(c))
        /\ Ordered(s) /\ Follows(s) /\ ToSet(s) = OSLeft \cup ToEnsure(c)
    BY <1>6, <2>1, <2>2, Joins DEF OSPlan, OSLeft
  <2>4. ensurePlan(c) \in Seq(OSSteps)
    BY <1>6 DEF OSPlan
  <2>5. Len(s) > 0 /\ Head(s) = step
    BY <2>1, <2>4 DEF step
  <2> QED BY <2>3, <2>5
<1> HIDE DEF s
<1>8. ToSet(Tail(s)) = ToEnsure(c)
  <2>1. ToSet(Tail(s)) = ToSet(s) \ {step}
    BY <1>7, Tails
  <2>2. step \notin ToEnsure(c)
    BY <1>3 DEF ToEnsure, EndOfEnsure, PortWork, Obsolete
  <2> QED BY <1>3, <1>4, <1>7, <2>1, <2>2
<1>9. d \in OSCalls /\ d = [c EXCEPT !.steps = s] /\ d.steps = s
  BY <1>5, <1>7 DEF OSCalls, s
<1>10. OSContinues(d)
  <2>1. /\ d.seen = cloud.listeners /\ d.op = call.op /\ d.spec = call.spec /\ d.nodes = call.nodes
        /\ d.failed = call.failed
    BY <1>5, <1>9 DEF OSCalls
  <2> QED BY <1>2, <1>7, <1>9, <2>1 DEF OSContinues
<1>11. OSAdvances(d, cloud)
  <2>1. /\ d.op = "ensure" /\ ~d.failed /\ d.spec = c.spec /\ d.seen = cloud.listeners
        /\ ToEnsure(d) = ToEnsure(c) /\ d.deferred = <<>>
    BY <1>5, <1>9 DEF OSCalls, ToEnsure
  <2>2. \A p \in PortsOf(d.spec), n \in PortWork : <<n, p>> \in ToEnsure(d)
    BY DEF ToEnsure
  <2>3. \A p \in cloud.listeners : p \in PortsOf(d.spec) \/ <<"drop_listener", p>> \in ToEnsure(d)
    BY <2>1 DEF ToEnsure, Obsolete
  <2>4. \A p \in PortNumbers : <<"drop_listener", p>> \in ToEnsure(d) => <<"drop_pool", p>> \in ToEnsure(d)
    BY DEF ToEnsure, Obsolete, PortWork, EndOfEnsure
  <2>5. <<"floating", 0>> \in ToEnsure(d)
    BY DEF ToEnsure, EndOfEnsure
  <2>6. MembersMade(d, ToEnsure(d), cloud)
    BY <2>2 DEF MembersMade, MemberMade, PortsOf, PortWork
  <2>7. Ensuring(d, ToEnsure(d), cloud)
    BY <1>4, <2>1, <2>2, <2>3, <2>4, <2>5, <2>6 DEF Ensuring, PortWork
  <2> QED BY <1>8, <1>9, <2>1, <2>7 DEF OSAdvances, Progress
<1>12. Acts(cloud, d)
  <2>1. Read(d)
    BY DEF getListeners
  <2> QED BY <2>1, OSRequests
<1> HIDE DEF c, d
<1> QED BY <1>1, <1>2, <1>10, <1>11, <1>12, Acting

\* A step that leaves the members
LEMMA MembersKept ==
    ASSUME OSInv, ~Idle, step[1] \notin {"members", "member"}, MembersMade(call, OSLeft, cloud), NEW x,
           \A p \in PortsOf(call.spec) : x.pools[p].members = cloud.pools[p].members
    PROVE  MembersMade(call, OSRest, x)
<1>1. \A n, p : n \in {"members", "member"} => (<<n, p>> \in OSLeft <=> <<n, p>> \in OSRest)
  BY OSHere
<1>2. \A i \in DOMAIN call.spec : call.spec[i].port \in PortsOf(call.spec)
  BY DEF PortsOf
<1> SUFFICES ASSUME NEW i \in DOMAIN call.spec
             PROVE  MemberMade(call, OSRest, x.pools[call.spec[i].port].members, call.spec[i])
  BY DEF MembersMade
<1>3. MemberMade(call, OSLeft, x.pools[call.spec[i].port].members, call.spec[i])
  BY <1>2 DEF MembersMade
<1> QED BY <1>1, <1>3 DEF MemberMade

LEMMA ListenerStep ==
    ASSUME OSInv, want' = want, ensureListener
    PROVE  OSInv'
<1> DEFINE x == IF port \notin call.seen THEN [cloud EXCEPT !.listeners = cloud.listeners \cup {port}]
                ELSE cloud
<1>1. ~Idle /\ step[1] = "listener"
  BY DEF ensureListener, On, step
<1>2. cloud \in OSClouds /\ IsFiniteSet(cloud.listeners) /\ OSStanding(cloud)
  BY DEF OSInv, OSTypes
<1>3. Acts(x, call)
  <2>1. (port \notin call.seen) \in BOOLEAN
    OBVIOUS
  <2> QED BY <2>1, OSRequests DEF ensureListener
<1>4. /\ Ensuring(call, OSLeft, cloud) /\ step = <<"listener", port>>
      /\ port \in PortsOf(call.spec) /\ port \in PortNumbers
  BY <1>1, OSHere, Parts DEF PortWork
<1>5. /\ x.lb = cloud.lb /\ x.pools = cloud.pools /\ x.floating = cloud.floating
      /\ x \in OSClouds /\ IsFiniteSet(x.listeners)
      /\ x.listeners \in {cloud.listeners, cloud.listeners \cup {port}}
      /\ port \notin call.seen => port \in x.listeners
  <2>1. IsFiniteSet(cloud.listeners \cup {port})
    BY <1>2, FS_AddElement
  <2> QED BY <1>2, <1>4, <2>1 DEF OSClouds
<1> HIDE DEF x
<1>6. OSGood(x)
  BY <1>2, <1>4, <1>5 DEF OSGood, OSStanding, Ensuring
<1>7. OSAdvances(call, x)
  <2>1. \A n, p : n # "listener" => (<<n, p>> \in OSLeft <=> <<n, p>> \in OSRest)
    BY <1>1, OSHere
  <2>2. MembersMade(call, OSRest, x)
    BY <1>1, <1>4, <1>5, MembersKept DEF Ensuring
  <2>3. port \in x.listeners
    BY <1>4, <1>5 DEF Ensuring
  <2>4. \A p \in PortsOf(call.spec) :
          p \in x.listeners \/ (p \notin call.seen /\ <<"listener", p>> \in OSRest)
    BY <1>1, <1>4, <1>5, <2>3, OSHere DEF Ensuring
  <2>5. OSRest \subseteq ToEnsure(call)
    BY <1>1, <1>4, OSHere DEF Ensuring
  <2>6. Ensuring(call, OSRest, x)
    BY <1>4, <1>5, <2>1, <2>2, <2>4, <2>5 DEF Ensuring
  <2> QED BY <2>6 DEF OSAdvances, Progress, OSRest
<1> QED BY <1>1, <1>3, <1>6, <1>7, OSRunning, Acting

\* The port of a step that needs it has a listener, and the pool.
LEMMA Founded ==
    ASSUME OSInv, ~Idle, step[1] \in {"pool", "members", "member", "monitor"},
           Ensuring(call, OSLeft, cloud)
    PROVE  /\ port \in cloud.listeners
           /\ step[1] # "pool" => cloud.pools[port].exists
<1>1. port \in PortsOf(call.spec)
  BY Parts DEF PortWork
<1>2. "listener" \in Names /\ "pool" \in Names /\ OSRank("listener") < OSRank(step[1])
  BY DEF Names, PortWork, OSRank
<1>3. step[1] # "pool" => OSRank("pool") < OSRank(step[1])
  BY DEF OSRank
<1>4. <<"listener", port>> \notin OSLeft /\ (step[1] # "pool" => <<"pool", port>> \notin OSLeft)
  BY <1>2, <1>3, Earlier
<1> QED BY <1>1, <1>4 DEF Ensuring

LEMMA PoolStep ==
    ASSUME OSInv, want' = want, ensurePool
    PROVE  OSInv'
<1> DEFINE q == [cloud.pools[port] EXCEPT !.exists = TRUE]
           y == [cloud EXCEPT !.pools[port] = q]
           x == IF ~cloud.pools[port].exists THEN y ELSE cloud
<1>1. ~Idle /\ step[1] = "pool"
  BY DEF ensurePool, On, step
<1>2. cloud \in OSClouds /\ IsFiniteSet(cloud.listeners) /\ OSStanding(cloud)
  BY DEF OSInv, OSTypes
<1>3. /\ Ensuring(call, OSLeft, cloud) /\ step = <<"pool", port>>
      /\ port \in PortsOf(call.spec) /\ port \in PortNumbers
  BY <1>1, OSHere, Parts DEF PortWork
<1>4. cloud.pools[port] \in OSPools /\ q \in OSPools /\ q.exists
      /\ q.members = cloud.pools[port].members /\ q.monitor = cloud.pools[port].monitor
  BY <1>2, <1>3 DEF OSClouds, OSPools
<1>5. Acts(x, call)
  <2>1. (~cloud.pools[port].exists) \in BOOLEAN
    OBVIOUS
  <2>2. Make(~cloud.pools[port].exists, y)
    BY DEF ensurePool
  <2> QED BY <2>1, <2>2, OSRequests
<1>6. port \in cloud.listeners
  BY <1>1, <1>3, Founded
<1>7. Repooled(y, q)
  <2>1. y = [cloud EXCEPT !.pools[port] = q]
    OBVIOUS
  <2> HIDE DEF q, y
  <2> QED BY <1>1, <1>3, <1>4, <1>6, <2>1, Repools
<1>8. /\ x \in OSClouds /\ IsFiniteSet(x.listeners) /\ OSStanding(x)
      /\ x.lb = cloud.lb /\ x.listeners = cloud.listeners /\ x.floating = cloud.floating
      /\ x.pools[port].exists
      /\ \A p \in PortNumbers : /\ x.pools[p].members = cloud.pools[p].members
                                /\ x.pools[p].monitor = cloud.pools[p].monitor
                                /\ p # port => x.pools[p] = cloud.pools[p]
  <2> HIDE DEF q, y
  <2> QED BY <1>2, <1>4, <1>7 DEF Repooled
<1> HIDE DEF x, y, q
<1>9. OSGood(x)
  BY <1>3, <1>8 DEF OSGood, Ensuring
<1>10. OSAdvances(call, x)
  <2>1. \A n, p : n # "pool" => (<<n, p>> \in OSLeft <=> <<n, p>> \in OSRest)
    BY <1>1, OSHere
  <2>2. PortsOf(call.spec) \subseteq PortNumbers
    BY <1>1, OSRunning, Ports
  <2>3. MembersMade(call, OSRest, x)
    BY <1>1, <1>3, <1>8, <2>2, MembersKept DEF Ensuring
  <2>4. \A p \in PortsOf(call.spec) : x.pools[p].exists \/ <<"pool", p>> \in OSRest
    BY <1>1, <1>3, <1>8, <2>2, OSHere DEF Ensuring
  <2>5. OSRest \subseteq ToEnsure(call)
    BY <1>1, <1>3, OSHere DEF Ensuring
  <2>6. <<"drop_listener", port>> \notin OSRest
    BY <1>3, <2>5 DEF ToEnsure, EndOfEnsure, PortWork
  <2>7. Ensuring(call, OSRest, x)
    BY <1>3, <1>8, <2>1, <2>2, <2>3, <2>4, <2>5, <2>6 DEF Ensuring
  <2> QED BY <2>7 DEF OSAdvances, Progress, OSRest
<1> QED BY <1>1, <1>5, <1>9, <1>10, OSRunning, Acting

LEMMA MonitorStep ==
    ASSUME OSInv, want' = want, ensureMonitor
    PROVE  OSInv'
<1> DEFINE q == [cloud.pools[port] EXCEPT !.monitor = TRUE]
           y == [cloud EXCEPT !.pools[port] = q]
           x == IF ~cloud.pools[port].monitor THEN y ELSE cloud
<1>1. ~Idle /\ step[1] = "monitor"
  BY DEF ensureMonitor, On, step
<1>2. cloud \in OSClouds /\ IsFiniteSet(cloud.listeners) /\ OSStanding(cloud)
  BY DEF OSInv, OSTypes
<1>3. /\ Ensuring(call, OSLeft, cloud) /\ step = <<"monitor", port>>
      /\ port \in PortsOf(call.spec) /\ port \in PortNumbers
  BY <1>1, OSHere, Parts DEF PortWork
<1>4. port \in cloud.listeners /\ cloud.pools[port].exists
  BY <1>1, <1>3, Founded
<1>5. cloud.pools[port] \in OSPools /\ q \in OSPools /\ q.exists /\ q.monitor
      /\ q.members = cloud.pools[port].members /\ q.exists = cloud.pools[port].exists
  BY <1>2, <1>3, <1>4 DEF OSClouds, OSPools
<1>6. Acts(x, call)
  <2>1. (~cloud.pools[port].monitor) \in BOOLEAN
    OBVIOUS
  <2>2. Make(~cloud.pools[port].monitor, y)
    BY DEF ensureMonitor
  <2> QED BY <2>1, <2>2, OSRequests
<1>7. Repooled(y, q)
  <2>1. y = [cloud EXCEPT !.pools[port] = q]
    OBVIOUS
  <2> HIDE DEF q, y
  <2> QED BY <1>1, <1>3, <1>4, <1>5, <2>1, Repools
<1>8. /\ x \in OSClouds /\ IsFiniteSet(x.listeners) /\ OSStanding(x)
      /\ x.lb = cloud.lb /\ x.listeners = cloud.listeners /\ x.floating = cloud.floating
      /\ x.pools[port].monitor
      /\ \A p \in PortNumbers : /\ x.pools[p].members = cloud.pools[p].members
                                /\ x.pools[p].exists = cloud.pools[p].exists
                                /\ p # port => x.pools[p] = cloud.pools[p]
  <2> HIDE DEF q, y
  <2> QED BY <1>2, <1>4, <1>5, <1>7 DEF Repooled
<1> HIDE DEF x, y, q
<1>9. OSGood(x)
  BY <1>3, <1>8 DEF OSGood, Ensuring
<1>10. OSAdvances(call, x)
  <2>1. \A n, p : n # "monitor" => (<<n, p>> \in OSLeft <=> <<n, p>> \in OSRest)
    BY <1>1, OSHere
  <2>2. PortsOf(call.spec) \subseteq PortNumbers
    BY <1>1, OSRunning, Ports
  <2>3. MembersMade(call, OSRest, x)
    BY <1>1, <1>3, <1>8, <2>2, MembersKept DEF Ensuring
  <2>4. \A p \in PortsOf(call.spec) : x.pools[p].monitor \/ <<"monitor", p>> \in OSRest
    BY <1>1, <1>3, <1>8, <2>2, OSHere DEF Ensuring
  <2>5. OSRest \subseteq ToEnsure(call)
    BY <1>1, <1>3, OSHere DEF Ensuring
  <2>6. <<"drop_listener", port>> \notin OSRest
    BY <1>3, <2>5 DEF ToEnsure, EndOfEnsure, PortWork
  <2>7. Ensuring(call, OSRest, x)
    BY <1>3, <1>8, <2>1, <2>2, <2>3, <2>4, <2>5, <2>6 DEF Ensuring
  <2> QED BY <2>7 DEF OSAdvances, Progress, OSRest
<1> QED BY <1>1, <1>6, <1>9, <1>10, OSRunning, Acting

LEMMA FloatingStep ==
    ASSUME OSInv, want' = want, ensureFloatingIP
    PROVE  OSInv'
<1> DEFINE x == IF ~cloud.floating THEN [cloud EXCEPT !.floating = TRUE] ELSE cloud
<1>1. ~Idle /\ step[1] = "floating"
  BY DEF ensureFloatingIP, On, step
<1>2. cloud \in OSClouds /\ IsFiniteSet(cloud.listeners) /\ OSStanding(cloud)
  BY DEF OSInv, OSTypes
<1>3. Acts(x, call)
  <2>1. (~cloud.floating) \in BOOLEAN
    OBVIOUS
  <2> QED BY <2>1, OSRequests DEF ensureFloatingIP
<1>4. Ensuring(call, OSLeft, cloud)
  BY <1>1, Parts DEF EnsureEnd
<1>5. /\ x.lb = cloud.lb /\ x.pools = cloud.pools /\ x.floating
      /\ x \in OSClouds /\ x.listeners = cloud.listeners
  BY <1>2 DEF OSClouds
<1> HIDE DEF x
<1>6. OSGood(x)
  BY <1>2, <1>4, <1>5 DEF OSGood, OSStanding, Ensuring
<1>7. OSAdvances(call, x)
  <2>1. \A n, p : n # "floating" => (<<n, p>> \in OSLeft <=> <<n, p>> \in OSRest)
    BY <1>1, OSHere
  <2>2. MembersMade(call, OSRest, x)
    BY <1>1, <1>4, <1>5, MembersKept DEF Ensuring
  <2>3. OSRest \subseteq ToEnsure(call)
    BY <1>1, <1>4, OSHere DEF Ensuring
  <2>4. Ensuring(call, OSRest, x)
    BY <1>4, <1>5, <2>1, <2>2, <2>3 DEF Ensuring
  <2> QED BY <2>4 DEF OSAdvances, Progress, OSRest
<1> QED BY <1>1, <1>3, <1>6, <1>7, OSRunning, Acting

\* A step that changes nothing that the rest depends on
LEMMA EnsureKept ==
    ASSUME OSInv, ~Idle, step[1] \in {"group", "rules", "port"}, NEW x,
           x.lb = cloud.lb, x.pools = cloud.pools, x.floating = cloud.floating,
           x.listeners = cloud.listeners, Ensuring(call, OSLeft, cloud)
    PROVE  Ensuring(call, OSRest, x)
<1>1. \A n, p : n \notin {"group", "rules", "port"} => (<<n, p>> \in OSLeft <=> <<n, p>> \in OSRest)
  BY OSHere
<1>2. MembersMade(call, OSRest, x)
  BY MembersKept DEF Ensuring
<1>3. OSRest \subseteq ToEnsure(call)
  BY OSHere DEF Ensuring
<1>4. <<"group", 0>> \in OSRest => call.deferred = <<>>
  BY OSHere DEF Ensuring
<1> QED BY <1>1, <1>2, <1>3, <1>4 DEF Ensuring

LEMMA GroupSteps ==
    ASSUME OSInv, want' = want, ensureSecurityGroups
    PROVE  OSInv'
<1> DEFINE create == [cloud EXCEPT !.groups = cloud.groups + 1]
           open   == [cloud EXCEPT !.open = TRUE]
           c      == [call EXCEPT !.deferred = OSDeleteSteps]
<1>1. ~Idle /\ step[1] \in {"group", "rules", "port"}
  BY DEF ensureSecurityGroups, On, step
<1>2. cloud \in OSClouds /\ IsFiniteSet(cloud.listeners) /\ OSStanding(cloud) /\ OSGood(cloud)
  BY <1>1, OSRunning DEF OSInv, OSTypes
<1>3. Ensuring(call, OSLeft, cloud)
  BY <1>1, Parts DEF EnsureEnd
<1>4. /\ create.lb = cloud.lb /\ create.pools = cloud.pools /\ create.floating = cloud.floating
      /\ create.listeners = cloud.listeners /\ create \in OSClouds
  <2>1. cloud.groups + 1 \in Nat
    BY <1>2 DEF OSClouds
  <2> QED BY <1>2, <2>1 DEF OSClouds
<1>5. /\ open.lb = cloud.lb /\ open.pools = cloud.pools /\ open.floating = cloud.floating
      /\ open.listeners = cloud.listeners /\ open \in OSClouds
  BY <1>2 DEF OSClouds
<1>6. /\ call \in OSCalls /\ c \in OSCalls /\ c.steps = call.steps /\ OSContinues(c)
      /\ c.op = call.op /\ c.failed = call.failed /\ c.spec = call.spec /\ c.nodes = call.nodes
      /\ c.seen = call.seen /\ c.todo = call.todo
  BY <1>1, OSRunning DEF OSCalls, OSContinues
<1> HIDE DEF create, open, c
<1>7. OSGood(create) /\ OSGood(open)
  BY <1>2, <1>3, <1>4, <1>5 DEF OSGood, OSStanding, Ensuring
<1>8. /\ Ensuring(call, OSRest, cloud) /\ Ensuring(call, OSRest, create) /\ Ensuring(call, OSRest, open)
      /\ OSAdvances(call, cloud) /\ OSAdvances(call, open)
  <2>1. Ensuring(call, OSRest, cloud) /\ Ensuring(call, OSRest, create) /\ Ensuring(call, OSRest, open)
    BY <1>1, <1>3, <1>4, <1>5, EnsureKept
  <2> QED BY <2>1 DEF OSAdvances, Progress, OSRest
<1>9. CASE On("group")
  <2>0. step = <<"group", 0>>
    BY <1>1, <1>9, OSHere DEF On, step, PortWork, Obsolete
  <2>1. \/ cloud' = create /\ Proceed(c)
        \/ /\ cloud' \in {cloud, create}
           /\ call' = [call EXCEPT !.steps = OSDeleteSteps, !.failed = TRUE] /\ UNCHANGED synced
    <3>1. ~On("rules") /\ ~On("port")
      BY <1>9 DEF On
    <3> QED BY <1>9, <3>1 DEF ensureSecurityGroups, create, c
  <2>2. CASE cloud' = create /\ Proceed(c)
    <3>1. ToEnsure(c) = ToEnsure(call) /\ MembersMade(c, OSRest, create) = MembersMade(call, OSRest, create)
      BY <1>6 DEF ToEnsure, MembersMade, MemberMade
    <3>2. <<"group", 0>> \notin OSRest
      BY <1>1, <2>0, OSHere
    <3>3. Ensuring(c, OSRest, create)
      BY <1>6, <1>8, <3>1, <3>2 DEF Ensuring
    <3>4. OSAdvances(c, create)
      BY <1>6, <3>3 DEF OSAdvances, Progress, OSRest
    <3> QED BY <1>1, <1>6, <1>7, <2>2, <3>4, Acting DEF Acts
  <2>3. CASE /\ cloud' \in {cloud, create}
             /\ call' = [call EXCEPT !.steps = OSDeleteSteps, !.failed = TRUE] /\ UNCHANGED synced
    <3>1. call.deferred = <<>> /\ call.op = "ensure"
      BY <1>1, <1>3, <2>0, OSHere DEF Ensuring
    <3>2. /\ OSDeleteSteps \in Seq(OSSteps) /\ Ordered(OSDeleteSteps) /\ Follows(OSDeleteSteps)
          /\ ToSet(OSDeleteSteps) = DeleteStart \X {0}
      BY FirstPlans DEF OSPlan, Adjacent
    <3>3. /\ call' \in OSCalls /\ call'.op = "ensure" /\ call'.failed /\ call'.deferred = <<>>
          /\ call'.steps = OSDeleteSteps /\ call'.seen = call.seen
      BY <1>6, <2>3, <3>1, <3>2 DEF OSCalls
    <3>4. OSDeleteSteps # <<>>
      <4>1. ToSet(<<>>) = {} /\ <<"find", 0>> \in DeleteStart \X {0}
        BY DEF ToSet, DeleteStart
      <4> QED BY <3>2, <4>1
    <3>5. Progress(call, ToSet(call.steps), cloud)'
      <4>1. /\ <<"listeners_to_drop", 0>> \in DeleteStart \X {0}
            /\ <<"drop_floating", 0>> \in DeleteStart \X {0}
        BY DEF DeleteStart
      <4> QED BY <3>2, <3>3, <4>1 DEF Progress, StartingDelete, Deleting
    <3>6. /\ synced' = synced /\ synced \in OSAnswers /\ synced.by = "none" /\ ~synced.ensured
          /\ want \in [present : BOOLEAN, spec : OSShapes, nodes : SUBSET BalancerNodes]
          /\ IsFiniteSet(call.seen)
      BY <1>1, <2>3, <3>1, OSRunning DEF OSContinues
    <3>7. OSStanding(cloud)' /\ OSAgreed(cloud, synced)' /\ cloud' \in OSClouds /\ IsFiniteSet(cloud'.listeners)
      BY <1>2, <1>7, <2>3, <3>6 DEF OSGood, OSAgreed
    <3>8. call'.steps # <<>> /\ IsFiniteSet(call'.seen) /\ synced'.ensured = (call'.op = "update")
      BY <3>3, <3>4, <3>6 DEF OSAnswers
    <3>9. OSTypes'
      BY <3>3, <3>6, <3>7, <3>8 DEF OSTypes
    <3> QED BY <3>2, <3>3, <3>5, <3>6, <3>7, <3>8, <3>9 DEF OSInv
  <2> QED BY <2>1, <2>2, <2>3
<1>10. CASE On("rules")
  <2>1. Request(open, call)
    <3>1. ~On("group") /\ ~On("port")
      BY <1>10 DEF On
    <3> QED BY <1>10, <3>1 DEF ensureSecurityGroups, open
  <2> QED BY <1>1, <1>7, <1>8, <2>1, OSRunning, OSRequests, Acting
<1>11. CASE On("port")
  <2>1. Request(cloud, call)
    <3>1. ~On("group") /\ ~On("rules")
      BY <1>11 DEF On
    <3> QED BY <1>11, <3>1 DEF ensureSecurityGroups
  <2> QED BY <1>1, <1>2, <1>8, <2>1, OSRunning, OSRequests, Acting
<1> QED BY <1>9, <1>10, <1>11 DEF ensureSecurityGroups

-----------------------------------------------------------------------------
(***************************************************************************)
(* The members of a pool, for EnsureLoadBalancer and UpdateLoadBalancer    *)
(***************************************************************************)
LEMMA TheirPort ==
    ASSUME OSInv, ~Idle, step[1] \in {"members", "member"}
    PROVE  /\ step = <<step[1], port>> /\ port \in PortNumbers /\ port \in cloud.listeners
           /\ port \in PortsOf(call.spec) /\ cloud.pools[port].exists
           /\ Ensuring(call, OSLeft, cloud) \/ Updating(call, OSLeft, cloud)
           /\ MembersMade(call, OSLeft, cloud)
           /\ cloud.pools[port] \in OSPools
<1>1. step[1] \in PortWork
  BY DEF PortWork
<1>2. /\ step = <<step[1], port>> /\ port \in PortNumbers /\ port \in PortsOf(call.spec)
      /\ Ensuring(call, OSLeft, cloud) \/ Updating(call, OSLeft, cloud)
  BY <1>1, OSHere, Parts
<1>3. CASE Ensuring(call, OSLeft, cloud)
  <2>1. port \in cloud.listeners /\ cloud.pools[port].exists
    <3>1. step[1] \in {"pool", "members", "member", "monitor"} /\ step[1] # "pool"
      OBVIOUS
    <3> QED BY <1>3, <3>1, Founded
  <2>2. cloud.pools[port] \in OSPools
    BY <1>2 DEF OSInv, OSTypes, OSClouds
  <2> QED BY <1>2, <1>3, <2>1, <2>2 DEF Ensuring
<1>4. CASE Updating(call, OSLeft, cloud)
  <2>1. OSFitsIn(cloud, call.spec)
    BY <1>4, OSRunning DEF Updating, OSGood
  <2>2. cloud.pools[port] \in OSPools
    BY <1>2 DEF OSInv, OSTypes, OSClouds
  <2> QED BY <1>2, <1>4, <2>1, <2>2 DEF Updating, OSFitsIn
<1> QED BY <1>2, <1>3, <1>4

LEMMA TheirNodePort ==
    ASSUME OSInv, ~Idle, step[1] \in {"members", "member"}
    PROVE  /\ nodePort \in NodePorts
           /\ \A i \in DOMAIN call.spec : call.spec[i].port = port => call.spec[i].nodePort = nodePort
<1> PICK s : s = call.spec
  OBVIOUS
<1>1. s \in OSShapes /\ port \in PortsOf(s)
  BY OSRunning, TheirPort
<1>2. \A i, j \in DOMAIN s : s[i].port = s[j].port => i = j
  BY <1>1, OpenStackAssumption
<1>3. PICK i \in DOMAIN s : s[i].port = port
  BY <1>1 DEF PortsOf
<1>4. \E k \in ToSet(s) : k.port = port
  BY <1>3 DEF ToSet
<1> DEFINE k == CHOOSE k \in ToSet(s) : k.port = port
<1>5. k \in ToSet(s) /\ k.port = port
  BY <1>4
<1>6. nodePort = k.nodePort
  BY DEF nodePort
<1> HIDE DEF k
<1>7. k = s[i]
  BY <1>2, <1>3, <1>5 DEF ToSet
<1>8. s[i].nodePort \in NodePorts
  BY <1>1 DEF NodePorts
<1> QED BY <1>2, <1>3, <1>6, <1>7, <1>8

\* The pools whose members are read and not yet changed
LEMMA Pairs ==
    ASSUME OSInv, ~Idle, NEW p, <<"member", p>> \in OSLeft, <<"member", p>> # step
    PROVE  <<"members", p>> \in OSLeft
<1> PICK s \in Seq(OSSteps) : s = call.steps /\ Follows(s) /\ step = s[1]
  BY OSHere, OSRunning DEF OSContinues
<1>1. PICK i \in DOMAIN s : s[i] = <<"member", p>>
  BY DEF OSLeft, ToSet
<1>2. i # 1 /\ s[i][1] = "member" /\ s[i][2] = p
  BY <1>1
<1>3. s[i - 1] = <<"members", p>>
  BY <1>2 DEF Follows
<1>4. i - 1 \in DOMAIN s
  BY <1>2
<1> QED BY <1>3, <1>4 DEF OSLeft, ToSet

\* Nothing changes but the members for the port.
LEMMA MembersMoved ==
    ASSUME OSInv, ~Idle, step[1] \in {"members", "member"},
           NEW left \in {OSLeft, OSRest}, NEW c, c.spec = call.spec, c.nodes = call.nodes, NEW x,
           \A p \in PortNumbers : p # port => x.pools[p] = cloud.pools[p],
           \A i \in DOMAIN call.spec : call.spec[i].port = port =>
               MemberMade(c, left, x.pools[port].members, call.spec[i])
    PROVE  MembersMade(c, left, x)
<1> SUFFICES ASSUME NEW i \in DOMAIN call.spec, call.spec[i].port # port
             PROVE  MemberMade(c, left, x.pools[call.spec[i].port].members, call.spec[i])
  BY DEF MembersMade
<1> PICK k : k = call.spec[i]
  OBVIOUS
<1>1. x.pools[k.port] = cloud.pools[k.port]
  <2>1. k.port \in PortNumbers
    BY OSRunning DEF PortNumbers
  <2> QED BY <2>1
<1>2. \A n : <<n, k.port>> \in OSLeft <=> <<n, k.port>> \in left
  <2>1. \A n : <<n, k.port>> # step
    <3>1. step = <<step[1], port>>
      BY OSHere
    <3> QED BY <3>1
  <2> QED BY <2>1, OSHere
<1>3. MemberMade(call, OSLeft, cloud.pools[k.port].members, k)
  BY TheirPort DEF MembersMade
<1>4. <<"member", k.port>> \in OSLeft => <<"members", k.port>> \in OSLeft
  <2>1. <<"member", k.port>> # step
    <3>1. step = <<step[1], port>>
      BY OSHere
    <3> QED BY <3>1
  <2> QED BY <2>1, Pairs
<1> QED BY <1>1, <1>2, <1>3, <1>4 DEF MemberMade

LEMMA MembersProgress ==
    ASSUME OSInv, ~Idle, step[1] \in {"members", "member"},
           NEW left \in {OSLeft, OSRest}, NEW c, c.op = call.op, c.failed = call.failed,
           c.deferred = call.deferred, c.spec = call.spec, c.nodes = call.nodes, c.seen = call.seen,
           NEW x, x.lb = cloud.lb, x.listeners = cloud.listeners, x.floating = cloud.floating,
           x.pools[port].exists, x.pools[port].monitor = cloud.pools[port].monitor,
           \A p \in PortNumbers : p # port => x.pools[p] = cloud.pools[p],
           \A i \in DOMAIN call.spec : call.spec[i].port = port =>
               MemberMade(c, left, x.pools[port].members, call.spec[i])
    PROVE  Progress(c, left, x)
<1>1. MembersMade(c, left, x)
  BY MembersMoved
<1>2. \A n, p : n \notin {"members", "member"} => (<<n, p>> \in OSLeft <=> <<n, p>> \in left)
  BY OSHere
<1>3. left \subseteq OSLeft
  BY OSHere
<1>4. ASSUME Ensuring(call, OSLeft, cloud) PROVE Ensuring(c, left, x)
  <2>1. ToEnsure(c) = ToEnsure(call)
    BY DEF ToEnsure
  <2>2. PortsOf(call.spec) \subseteq PortNumbers /\ port \in PortsOf(call.spec)
    BY OSRunning, Ports, TheirPort
  <2>3. <<"drop_listener", port>> \notin left
    BY <1>3, <1>4, <2>2, NoPort DEF Ensuring, ToEnsure, EndOfEnsure, PortWork
  <2>4. \A p \in PortNumbers : x.pools[p].monitor = cloud.pools[p].monitor
    OBVIOUS
  <2>5. \A p \in PortNumbers : x.pools[p].exists \/ x.pools[p] = cloud.pools[p]
    OBVIOUS
  <2> QED BY <1>1, <1>2, <1>3, <1>4, <2>1, <2>2, <2>3, <2>4, <2>5 DEF Ensuring
<1>5. ASSUME Updating(call, OSLeft, cloud) PROVE Updating(c, left, x)
  BY <1>1, <1>3, <1>5 DEF Updating
<1> QED BY <1>4, <1>5, TheirPort DEF Progress

\* The members are read, and what is to do with them planned.
LEMMA MembersStep ==
    ASSUME OSInv, want' = want, getMembers
    PROVE  OSInv'
<1> DEFINE members == call.nodes \X {nodePort}
           is == cloud.pools[port].members
           c == [call EXCEPT !.todo = Difference(is, members)]
<1>1. ~Idle /\ step[1] = "members"
  BY DEF getMembers, On, step
<1>2. /\ port \in PortNumbers /\ cloud.pools[port] \in OSPools /\ cloud.pools[port].exists
      /\ step = <<"members", port>>
  BY <1>1, TheirPort
<1>3. members \subseteq Members /\ is \subseteq Members
  <2>1. call.nodes \subseteq BalancerNodes
    BY <1>1, OSRunning DEF OSCalls
  <2>2. nodePort \in NodePorts
    BY <1>1, TheirNodePort
  <2> QED BY <1>2, <2>1, <2>2 DEF Members, OSPools
<1>4. Difference(is, members) \subseteq Members \X {"create", "delete"}
  BY <1>3 DEF Difference
<1>5. /\ call \in OSCalls /\ c \in OSCalls /\ c.steps = call.steps /\ OSContinues(c)
      /\ c.op = call.op /\ c.failed = call.failed /\ c.spec = call.spec /\ c.nodes = call.nodes
      /\ c.seen = call.seen /\ c.deferred = call.deferred /\ c.todo = Difference(is, members)
  <2> HIDE DEF is, members
  <2> QED BY <1>1, <1>4, OSRunning DEF OSCalls, OSContinues
<1>6. Acts(cloud, c)
  <2>1. Read(c)
    BY DEF getMembers, Difference
  <2> QED BY <2>1, OSRequests
<1> HIDE DEF c
<1>7. ASSUME NEW i \in DOMAIN call.spec, call.spec[i].port = port
      PROVE  MemberMade(c, OSRest, is, call.spec[i])
  <2> PICK k : k = call.spec[i]
    OBVIOUS
  <2>1. MemberMade(call, OSLeft, is, k)
    BY <1>1, <1>7, TheirPort DEF MembersMade
  <2>2. k.port = port /\ k.nodePort = nodePort
    BY <1>1, <1>7, TheirNodePort
  <2>3. <<"member", port>> \in OSLeft <=> <<"member", port>> \in OSRest
    BY <1>1, OSHere
  <2> QED BY <1>5, <2>1, <2>2, <2>3 DEF MemberMade
<1>8. Progress(c, OSRest, cloud)
  <2>1. OSRest \in {OSLeft, OSRest}
    OBVIOUS
  <2>2. step[1] \in {"members", "member"}
    BY <1>1
  <2> QED BY <1>1, <1>2, <1>5, <1>7, <2>1, <2>2, MembersProgress
<1>9. OSAdvances(c, cloud)
  BY <1>5, <1>8 DEF OSAdvances, OSRest
<1> QED BY <1>1, <1>5, <1>6, <1>9, OSRunning, Acting

\* A call stays at its step.
LEMMA Staying ==
    ASSUME OSInv, ~Idle, want' = want, synced' = synced, OSGood(cloud'), OSContinues(call'),
           call'.steps = call.steps, Progress(call', OSLeft, cloud')
    PROVE  OSInv'
<1>1. /\ call \in OSCalls /\ synced \in OSAnswers /\ synced.by = "none"
      /\ synced.ensured = (call.op = "update")
      /\ call.op = "update" => call.spec = synced.spec
      /\ want \in [present : BOOLEAN, spec : OSShapes, nodes : SUBSET BalancerNodes]
  BY OSRunning DEF OSInv
<1>2. OSStanding(cloud)' /\ cloud' \in OSClouds /\ IsFiniteSet(cloud'.listeners)
  BY DEF OSGood
<1>3. OSAgreed(cloud, synced)'
  BY <1>1 DEF OSGood, OSAgreed
<1>4. /\ call' \in OSCalls /\ IsFiniteSet(call'.seen) /\ call'.op = call.op /\ call'.spec = call.spec
      /\ call'.steps # <<>> /\ Ordered(call'.steps) /\ Follows(call'.steps)
  <2>1. call.steps # <<>>
    BY DEF OSInv, OSTypes, Idle, NoCall
  <2> QED BY <2>1 DEF OSContinues
<1>5. Progress(call, ToSet(call.steps), cloud)'
  BY DEF OSLeft
<1>6. OSTypes'
  BY <1>1, <1>2, <1>4 DEF OSTypes
<1> QED BY <1>1, <1>2, <1>3, <1>4, <1>5, <1>6 DEF OSInv

\* One request for one member
Changed(is, e) == IF e[2] = "create" THEN is \cup {e[1]} ELSE is \ {e[1]}

LEMMA Differences ==
    ASSUME NEW is, NEW members, NEW e \in Difference(is, members)
    PROVE  Difference(Changed(is, e), members) = Difference(is, members) \ {e}
  BY DEF Difference, Changed

LEMMA NoDifference ==
    ASSUME NEW is, NEW members, Difference(is, members) = {}
    PROVE  is = members
<1>1. \A m : m \in members /\ m \notin is => <<m, "create">> \in Difference(is, members)
  BY DEF Difference
<1>2. \A m : m \in is /\ m \notin members => <<m, "delete">> \in Difference(is, members)
  BY DEF Difference
<1> QED BY <1>1, <1>2

\* A member is created or deleted, or all are as they should be.
LEMMA MemberStep ==
    ASSUME OSInv, want' = want, ensureMembers
    PROVE  OSInv'
<1> DEFINE is == cloud.pools[port].members
           members == call.nodes \X {nodePort}
           Pool(e) == [cloud.pools[port] EXCEPT !.members = Changed(is, e)]
           apply(e) == [cloud EXCEPT !.pools[port] = Pool(e)]
           less(e) == [call EXCEPT !.todo = call.todo \ {e}]
<1>1. ~Idle /\ step[1] = "member" /\ step[1] \in {"members", "member"}
  BY DEF ensureMembers, On, step
<1>2. /\ port \in PortNumbers /\ cloud.pools[port] \in OSPools /\ cloud.pools[port].exists
      /\ port \in cloud.listeners /\ step = <<"member", port>> /\ MembersMade(call, OSLeft, cloud)
  BY <1>1, TheirPort
<1>3. \/ /\ call.todo = {} /\ Proceed(call) /\ cloud' = cloud
      \/ \E e \in call.todo : \/ cloud' = apply(e) /\ call' = less(e) /\ synced' = synced
                              \/ cloud' \in {cloud, apply(e)} /\ Fails
  <2>1. \A e : apply(e) = [cloud EXCEPT !.pools[port].members =
                              IF e[2] = "create" THEN @ \cup {e[1]} ELSE @ \ {e[1]}]
    BY DEF Changed
  <2> HIDE DEF apply, Pool, is
  <2> DEFINE next == IF {e \in call.todo : e[2] = "create"} # {} THEN {e \in call.todo : e[2] = "create"}
                     ELSE call.todo
             Apply(e) == [cloud EXCEPT !.pools[port].members =
                              IF e[2] = "create" THEN @ \cup {e[1]} ELSE @ \ {e[1]}]
  <2>2. next \subseteq call.todo
    OBVIOUS
  <2>3. EachOf(next, Apply)
    BY DEF ensureMembers
  <2> HIDE DEF next
  <2> QED BY <2>1, <2>2, <2>3 DEF EachOf, NoRequest
<1>4. /\ call \in OSCalls /\ OSGood(cloud) /\ OSContinues(call)
      /\ call.todo \subseteq Members \X {"create", "delete"}
  BY <1>1, OSRunning DEF OSCalls
<1>5. <<"members", port>> \notin OSLeft /\ <<"member", port>> \in OSLeft
  <2>1. "members" \in Names /\ OSRank("members") < OSRank(step[1])
    BY <1>1 DEF Names, PortWork, OSRank
  <2> QED BY <1>1, <1>2, <2>1, OSHere, Earlier
<1>6. ASSUME NEW i \in DOMAIN call.spec, call.spec[i].port = port
      PROVE  call.todo = Difference(is, members) /\ call.spec[i].nodePort = nodePort
  <2>1. MemberMade(call, OSLeft, is, call.spec[i])
    BY <1>2, <1>6 DEF MembersMade
  <2>2. call.spec[i].nodePort = nodePort
    BY <1>1, <1>6, TheirNodePort
  <2> QED BY <1>5, <1>6, <2>1, <2>2 DEF MemberMade
<1>7. \E i \in DOMAIN call.spec : call.spec[i].port = port
  BY <1>1, TheirPort DEF PortsOf
<1>8. call.todo = Difference(is, members)
  BY <1>6, <1>7
<1>9. CASE call.todo = {} /\ Proceed(call) /\ cloud' = cloud
  <2>1. is = members
    BY <1>8, <1>9, NoDifference
  <2>2. <<"member", port>> \notin OSRest
    BY <1>1, <1>2, OSHere
  <2>3. \A i \in DOMAIN call.spec : call.spec[i].port = port =>
           MemberMade(call, OSRest, is, call.spec[i])
    BY <1>6, <2>1, <2>2 DEF MemberMade
  <2>4. OSRest \in {OSLeft, OSRest}
    OBVIOUS
  <2>5. Progress(call, OSRest, cloud)
    BY <1>1, <1>2, <2>3, <2>4, MembersProgress
  <2>6. OSAdvances(call, cloud)
    BY <2>5 DEF OSAdvances, OSRest
  <2> QED BY <1>1, <1>4, <1>9, <2>6, Acting DEF Acts
<1>10. ASSUME NEW e \in call.todo PROVE OSGood(apply(e)) /\ Repooled(apply(e), Pool(e))
  <2>1. e[1] \in Members
    BY <1>4
  <2>2. Changed(is, e) \subseteq Members
    BY <1>2, <2>1 DEF OSPools, Changed
  <2>3. Pool(e) \in OSPools /\ Pool(e).exists
    <3> HIDE DEF is
    <3> QED BY <1>2, <2>2 DEF OSPools
  <2> PICK x : x = apply(e)
    OBVIOUS
  <2> PICK q : q = Pool(e)
    OBVIOUS
  <2>4. Repooled(x, q)
    <3>1. x = [cloud EXCEPT !.pools[port] = q]
      OBVIOUS
    <3>2. q \in OSPools /\ q.exists
      BY <2>3
    <3> HIDE DEF apply, Pool, is
    <3> QED BY <1>1, <1>2, <3>1, <3>2, Repools
  <2>5. call.op = "update" => OSFitsIn(x, synced.spec)
    <3>1. call.op = "update" => OSFitsIn(cloud, synced.spec)
      BY <1>4 DEF OSGood
    <3>2. \A p \in PortNumbers : /\ cloud.pools[p].exists => x.pools[p].exists
                                 /\ cloud.pools[p].monitor => x.pools[p].monitor
      <4>1. x.pools[port].exists /\ x.pools[port].monitor = cloud.pools[port].monitor
        BY <1>2, <2>3, <2>4 DEF Repooled, OSPools
      <4> QED BY <2>4, <4>1 DEF Repooled
    <3>3. x.listeners \subseteq PortNumbers
      BY <2>4 DEF Repooled, OSClouds
    <3> HIDE DEF apply, Pool, is
    <3> QED BY <2>4, <3>1, <3>2, <3>3 DEF Repooled, OSFitsIn
  <2>6. OSGood(x)
    BY <2>4, <2>5 DEF OSGood, Repooled
  <2> QED BY <2>4, <2>6
<1>11. ASSUME NEW e \in call.todo, cloud' = apply(e), call' = less(e), synced' = synced
       PROVE  OSInv'
  <2>1. OSGood(cloud') /\ Repooled(cloud', Pool(e))
    BY <1>10, <1>11
  <2>2. /\ Pool(e).exists /\ Pool(e).members = Changed(is, e)
        /\ Pool(e).monitor = cloud.pools[port].monitor
    BY <1>2 DEF OSPools
  <2>3. /\ call' \in OSCalls /\ call'.steps = call.steps /\ OSContinues(call')
        /\ call'.op = call.op /\ call'.failed = call.failed /\ call'.spec = call.spec
        /\ call'.nodes = call.nodes /\ call'.seen = call.seen /\ call'.deferred = call.deferred
        /\ call'.todo = call.todo \ {e}
    <3>1. call.todo \ {e} \subseteq Members \X {"create", "delete"}
      BY <1>4
    <3> QED BY <1>4, <1>11, <3>1 DEF OSCalls, OSContinues
  <2> HIDE DEF is, members, Pool, apply, less
  <2>4. call'.todo = Difference(Changed(is, e), members)
    BY <1>8, <2>3, Differences
  <2>5. ASSUME NEW i \in DOMAIN call.spec, call.spec[i].port = port
        PROVE  MemberMade(call', OSLeft, cloud'.pools[port].members, call.spec[i])
    <3>1. cloud'.pools[port].members = Changed(is, e) /\ call.spec[i].nodePort = nodePort
      BY <1>6, <2>1, <2>2, <2>5 DEF Repooled
    <3>2. call'.todo = Difference(Changed(is, e), call'.nodes \X {call.spec[i].nodePort})
      BY <2>3, <2>4, <3>1 DEF members
    <3> QED BY <1>5, <2>5, <3>1, <3>2 DEF MemberMade
  <2>6. /\ cloud'.lb = cloud.lb /\ cloud'.listeners = cloud.listeners
        /\ cloud'.floating = cloud.floating /\ cloud'.pools[port].exists
        /\ cloud'.pools[port].monitor = cloud.pools[port].monitor
        /\ \A p \in PortNumbers : p # port => cloud'.pools[p] = cloud.pools[p]
    BY <2>1, <2>2 DEF Repooled
  <2>7. OSLeft \in {OSLeft, OSRest}
    OBVIOUS
  <2>8. Progress(call', OSLeft, cloud')
    BY <1>1, <2>3, <2>5, <2>6, <2>7, MembersProgress
  <2> QED BY <1>1, <1>11, <2>1, <2>3, <2>8, Staying
<1>12. ASSUME NEW e \in call.todo, cloud' \in {cloud, apply(e)}, Fails
       PROVE  OSInv'
  <2>1. OSGood(cloud')
    BY <1>4, <1>10, <1>12
  <2> QED BY <1>1, <1>12, <2>1, Failing
<1> HIDE DEF apply, less
<1> QED BY <1>3, <1>9, <1>11, <1>12

-----------------------------------------------------------------------------
(***************************************************************************)
(* A listener goes with its pool, for EnsureLoadBalancer and EnsureLoad-   *)
(* BalancerDeleted.                                                        *)
(***************************************************************************)
LEMMA ObsoletePort ==
    ASSUME OSInv, ~Idle, step[1] \in Obsolete
    PROVE  /\ step = <<step[1], port>> /\ port \in PortNumbers /\ cloud.pools[port] \in OSPools
           /\ OSContinues(call) /\ OSGood(cloud) /\ call.op # "update" /\ cloud \in OSClouds
           /\ \/ Ensuring(call, OSLeft, cloud) /\ port \notin PortsOf(call.spec)
              \/ Dropping(call, OSLeft, cloud) /\ port \in cloud.listeners
           /\ cloud.pools[port] # NoneYet =>
                /\ port \in cloud.listeners /\ cloud.pools[port].exists
                /\ <<"drop_pool", port>> \in OSLeft
<1>1. /\ step = <<step[1], port>> /\ port \in PortNumbers
      /\ \/ Ensuring(call, OSLeft, cloud) /\ port \notin PortsOf(call.spec)
         \/ Dropping(call, OSLeft, cloud) /\ port \in cloud.listeners
  BY OSHere, Parts
<1>2. cloud \in OSClouds /\ cloud.pools[port] \in OSPools /\ OSStanding(cloud)
  BY <1>1 DEF OSInv, OSTypes, OSClouds
<1>3. call.op # "update"
  BY <1>1 DEF Ensuring, Dropping, Deleting
<1>4. cloud.pools[port] # NoneYet => port \in cloud.listeners /\ cloud.pools[port].exists
  BY <1>1, <1>2 DEF OSStanding
<1>5. ASSUME cloud.pools[port] # NoneYet PROVE <<"drop_pool", port>> \in OSLeft
  BY <1>1, <1>4, <1>5 DEF Ensuring, Dropping
<1> QED BY <1>1, <1>2, <1>3, <1>4, <1>5, OSRunning

LEMMA DropProgress ==
    ASSUME OSInv, ~Idle, step[1] \in Obsolete, step[1] # "drop_listener",
           NEW left \in {OSLeft, OSRest},
           NEW x, x.lb = cloud.lb, x.listeners = cloud.listeners, x.floating = cloud.floating,
           \A p \in PortNumbers : p # port => x.pools[p] = cloud.pools[p],
           x.pools[port] = NoneYet \/ <<"drop_pool", port>> \in left
    PROVE  Progress(call, left, x)
<1>1. step = <<step[1], port>> /\ port \in PortNumbers /\ call.spec \in OSShapes
  BY ObsoletePort, OSRunning
<1>2. left \subseteq OSLeft /\ \A n, p : <<n, p>> \in OSLeft => <<n, p>> \in left \/ <<n, p>> = step
  BY OSHere
<1>3. \A n, p : n \notin Obsolete => (<<n, p>> \in OSLeft <=> <<n, p>> \in left)
  BY <1>1, <1>2
<1>4. \A p : <<"drop_listener", p>> \in OSLeft <=> <<"drop_listener", p>> \in left
  BY <1>1, <1>2
<1>5. \A p : p # port => (<<"drop_pool", p>> \in OSLeft <=> <<"drop_pool", p>> \in left)
  BY <1>1, <1>2
<1>6. ASSUME Ensuring(call, OSLeft, cloud), port \notin PortsOf(call.spec) PROVE Ensuring(call, left, x)
  <2>1. \A p \in PortsOf(call.spec) : p \in PortNumbers /\ x.pools[p] = cloud.pools[p]
    BY <1>1, <1>6, Ports
  <2>2. MembersMade(call, left, x)
    <3>1. \A i \in DOMAIN call.spec : x.pools[call.spec[i].port] = cloud.pools[call.spec[i].port]
      BY <2>1 DEF PortsOf
    <3>2. \A n, p : n \in {"members", "member"} => (<<n, p>> \in OSLeft <=> <<n, p>> \in left)
      BY <1>3 DEF Obsolete
    <3>3. MembersMade(call, OSLeft, cloud)
      BY <1>6 DEF Ensuring
    <3> SUFFICES ASSUME NEW i \in DOMAIN call.spec
                 PROVE  MemberMade(call, left, x.pools[call.spec[i].port].members, call.spec[i])
      BY DEF MembersMade
    <3>4. MemberMade(call, OSLeft, x.pools[call.spec[i].port].members, call.spec[i])
      BY <3>1, <3>3 DEF MembersMade
    <3> QED BY <3>2, <3>4 DEF MemberMade
  <2>3. \A n \in {"floating", "listener", "pool", "monitor", "group"} : n \notin Obsolete
    BY DEF Obsolete
  <2> QED BY <1>2, <1>3, <1>4, <1>5, <1>6, <2>1, <2>2, <2>3 DEF Ensuring
<1>7. ASSUME Dropping(call, OSLeft, cloud) PROVE Dropping(call, left, x)
  <2>1. cloud.listeners \subseteq PortNumbers
    BY ObsoletePort DEF OSClouds
  <2> QED BY <1>2, <1>4, <1>5, <1>7, <2>1 DEF Dropping
<1> QED BY <1>6, <1>7, ObsoletePort DEF Progress

LEMMA MonitorGone ==
    ASSUME OSInv, want' = want, On("drop_monitor"),
           Make(cloud.pools[port].monitor, [cloud EXCEPT !.pools[port].monitor = FALSE])
    PROVE  OSInv'
<1> DEFINE q == [cloud.pools[port] EXCEPT !.monitor = FALSE]
           y == [cloud EXCEPT !.pools[port] = q]
           x == IF cloud.pools[port].monitor THEN y ELSE cloud
<1>1. ~Idle /\ step[1] = "drop_monitor" /\ step[1] \in Obsolete
  BY DEF On, step, Obsolete
<1>2. /\ step = <<"drop_monitor", port>> /\ port \in PortNumbers /\ cloud.pools[port] \in OSPools
      /\ OSContinues(call) /\ OSGood(cloud) /\ call.op # "update"
  BY <1>1, ObsoletePort
<1>3. cloud.pools[port].monitor \in BOOLEAN /\ q \in OSPools /\ q.exists = cloud.pools[port].exists
  BY <1>2 DEF OSPools
<1>4. Acts(x, call)
  BY <1>3, OSRequests
<1>5. cloud.pools[port].monitor => cloud.pools[port] # NoneYet
  BY DEF NoneYet
<1>6. cloud.pools[port].monitor => Repooled(y, q)
  <2>1. y = [cloud EXCEPT !.pools[port] = q]
    OBVIOUS
  <2>2. cloud.pools[port].monitor => port \in cloud.listeners /\ q.exists
    BY <1>1, <1>3, <1>5, ObsoletePort
  <2> HIDE DEF q, y
  <2> QED BY <1>1, <1>2, <1>3, <2>1, <2>2, Repools
<1>7. x \in {cloud, y} /\ (x = cloud \/ Repooled(x, q))
  BY <1>6
<1>8. x.lb = cloud.lb /\ x.listeners = cloud.listeners /\ x.floating = cloud.floating
  <2> HIDE DEF x, y, q
  <2> QED BY <1>7 DEF Repooled
<1>9. \A p \in PortNumbers : p # port => x.pools[p] = cloud.pools[p]
  <2> HIDE DEF x, y, q
  <2> QED BY <1>7 DEF Repooled
<1>10. x.pools[port] = NoneYet \/ <<"drop_pool", port>> \in OSRest
  <2>1. <<"drop_pool", port>> \in OSLeft => <<"drop_pool", port>> \in OSRest
    BY <1>1, <1>2, OSHere
  <2>2. CASE cloud.pools[port] = NoneYet
    BY <1>5, <2>2
  <2>3. CASE cloud.pools[port] # NoneYet
    BY <1>1, <2>1, <2>3, ObsoletePort
  <2> QED BY <2>2, <2>3
<1> HIDE DEF x, y, q
<1>11. OSGood(x)
  BY <1>2, <1>7 DEF OSGood, Repooled
<1>12. OSAdvances(call, x)
  <2>1. OSRest \in {OSLeft, OSRest} /\ step[1] # "drop_listener"
    BY <1>1
  <2>2. Progress(call, OSRest, x)
    BY <1>1, <1>8, <1>9, <1>10, <2>1, DropProgress
  <2> QED BY <2>2 DEF OSAdvances, OSRest
<1> QED BY <1>1, <1>2, <1>4, <1>11, <1>12, Acting

LEMMA PoolGone ==
    ASSUME OSInv, want' = want, On("drop_pool"),
           RequestIf(cloud.pools[port].exists, [cloud EXCEPT !.pools[port] = NoneYet], call)
    PROVE  OSInv'
<1> DEFINE y == [cloud EXCEPT !.pools[port] = NoneYet]
           x == IF cloud.pools[port].exists THEN y ELSE cloud
<1>1. ~Idle /\ step[1] = "drop_pool" /\ step[1] \in Obsolete
  BY DEF On, step, Obsolete
<1>2. /\ step = <<"drop_pool", port>> /\ port \in PortNumbers /\ cloud.pools[port] \in OSPools
      /\ OSContinues(call) /\ OSGood(cloud) /\ call.op # "update"
  BY <1>1, ObsoletePort
<1>3. cloud.pools[port].exists \in BOOLEAN /\ NoneYet \in OSPools
  BY <1>2 DEF OSPools, NoneYet
<1>4. Acts(x, call)
  BY <1>3, OSRequests
<1>5. Repooled(y, NoneYet)
  <2>1. y = [cloud EXCEPT !.pools[port] = NoneYet]
    OBVIOUS
  <2> HIDE DEF y
  <2> QED BY <1>1, <1>2, <1>3, <2>1, Repools
<1>6. x \in {cloud, y} /\ (x = cloud \/ Repooled(x, NoneYet))
  BY <1>5
<1>7. x.lb = cloud.lb /\ x.listeners = cloud.listeners /\ x.floating = cloud.floating
  <2> HIDE DEF x, y
  <2> QED BY <1>6 DEF Repooled
<1>8. \A p \in PortNumbers : p # port => x.pools[p] = cloud.pools[p]
  <2> HIDE DEF x, y
  <2> QED BY <1>6 DEF Repooled
<1>9. x.pools[port] = NoneYet
  <2>1. ~cloud.pools[port].exists => cloud.pools[port] = NoneYet
    BY <1>1, ObsoletePort
  <2>2. y.pools[port] = NoneYet
    <3> HIDE DEF y
    <3> QED BY <1>5 DEF Repooled
  <2> QED BY <2>1, <2>2
<1> HIDE DEF x, y
<1>10. OSGood(x)
  BY <1>2, <1>6 DEF OSGood, Repooled
<1>11. OSAdvances(call, x)
  <2>1. OSRest \in {OSLeft, OSRest} /\ step[1] # "drop_listener"
    BY <1>1
  <2>2. Progress(call, OSRest, x)
    BY <1>1, <1>7, <1>8, <1>9, <2>1, DropProgress
  <2> QED BY <2>2 DEF OSAdvances, OSRest
<1> QED BY <1>1, <1>2, <1>4, <1>10, <1>11, Acting

LEMMA MembersGone ==
    ASSUME OSInv, want' = want, On("drop_members"),
           IF cloud.pools[port].members = {}
             THEN Read(call)
             ELSE \E m \in cloud.pools[port].members :
                    LET dropped == [cloud EXCEPT !.pools[port].members = @ \ {m}]
                    IN  \/ cloud' = dropped /\ UNCHANGED <<synced, call, balancerFaults>>
                        \/ BalancerFault /\ cloud' \in {cloud, dropped} /\ Fails
    PROVE  OSInv'
<1> DEFINE q(m) == [cloud.pools[port] EXCEPT !.members = cloud.pools[port].members \ {m}]
           y(m) == [cloud EXCEPT !.pools[port] = q(m)]
<1>1. ~Idle /\ step[1] = "drop_members" /\ step[1] \in Obsolete /\ step[1] # "drop_listener"
  BY DEF On, step, Obsolete
<1>2. /\ step = <<"drop_members", port>> /\ port \in PortNumbers /\ cloud.pools[port] \in OSPools
      /\ OSContinues(call) /\ OSGood(cloud) /\ call.op # "update"
  BY <1>1, ObsoletePort
<1>3. CASE cloud.pools[port].members = {}
  <2>1. Read(call)
    BY <1>3
  <2>2. cloud.pools[port] = NoneYet \/ <<"drop_pool", port>> \in OSRest
    <3>1. <<"drop_pool", port>> \in OSLeft => <<"drop_pool", port>> \in OSRest
      BY <1>2, OSHere, <1>1
    <3> QED BY <1>1, <3>1, ObsoletePort
  <2>3. OSRest \in {OSLeft, OSRest}
    OBVIOUS
  <2>4. Progress(call, OSRest, cloud)
    BY <1>1, <2>2, <2>3, DropProgress
  <2>5. OSAdvances(call, cloud)
    BY <2>4 DEF OSAdvances, OSRest
  <2> QED BY <1>1, <1>2, <2>1, <2>5, OSRequests, Acting
<1>4. CASE cloud.pools[port].members # {}
  <2>1. PICK m \in cloud.pools[port].members :
          \/ cloud' = y(m) /\ synced' = synced /\ call' = call
          \/ cloud' \in {cloud, y(m)} /\ Fails
    BY <1>4
  <2>2. cloud.pools[port] # NoneYet
    BY <1>4 DEF NoneYet
  <2>3. /\ port \in cloud.listeners /\ cloud.pools[port].exists
        /\ <<"drop_pool", port>> \in OSLeft
    BY <1>1, <2>2, ObsoletePort
  <2>4. q(m) \in OSPools /\ q(m).exists
    BY <1>2, <2>3 DEF OSPools
  <2>5. Repooled(y(m), q(m))
    <3>1. y(m) = [cloud EXCEPT !.pools[port] = q(m)]
      OBVIOUS
    <3> PICK p : p = q(m)
      OBVIOUS
    <3> PICK x : x = y(m)
      OBVIOUS
    <3>2. x = [cloud EXCEPT !.pools[port] = p] /\ p \in OSPools /\ p.exists
      BY <2>4, <3>1
    <3> HIDE DEF q, y
    <3>3. Repooled(x, p)
      BY <1>1, <1>2, <2>3, <3>2, Repools
    <3> QED BY <3>3
  <2> HIDE DEF y, q
  <2>6. OSGood(y(m))
    BY <1>2, <2>5 DEF OSGood, Repooled
  <2>7. CASE cloud' = y(m) /\ synced' = synced /\ call' = call
    <3>1. OSLeft \in {OSLeft, OSRest}
      OBVIOUS
    <3> PICK x : x = y(m)
      OBVIOUS
    <3>2. Repooled(x, q(m))
      BY <2>5
    <3>3. /\ x.lb = cloud.lb /\ x.listeners = cloud.listeners /\ x.floating = cloud.floating
          /\ \A p \in PortNumbers : p # port => x.pools[p] = cloud.pools[p]
      BY <3>2 DEF Repooled
    <3>4. Progress(call, OSLeft, x)
      BY <1>1, <2>3, <3>1, <3>3, DropProgress
    <3> QED BY <1>1, <1>2, <2>6, <2>7, <3>4, Staying
  <2>8. CASE cloud' \in {cloud, y(m)} /\ Fails
    <3>1. OSGood(cloud')
      BY <1>2, <2>6, <2>8
    <3> QED BY <1>1, <2>8, <3>1, Failing
  <2> QED BY <2>1, <2>7, <2>8
<1> QED BY <1>3, <1>4

LEMMA ListenerGone ==
    ASSUME OSInv, want' = want, On("drop_listener"),
           Request([cloud EXCEPT !.listeners = cloud.listeners \ {port}], call)
    PROVE  OSInv'
<1> DEFINE x == [cloud EXCEPT !.listeners = cloud.listeners \ {port}]
<1>1. ~Idle /\ step[1] = "drop_listener" /\ step[1] \in Obsolete
  BY DEF On, step, Obsolete
<1>2. /\ step = <<"drop_listener", port>> /\ port \in PortNumbers /\ cloud.pools[port] \in OSPools
      /\ OSContinues(call) /\ OSGood(cloud) /\ call.op # "update" /\ cloud \in OSClouds
  BY <1>1, ObsoletePort
<1>3. Acts(x, call)
  BY OSRequests
<1>4. /\ x.lb = cloud.lb /\ x.pools = cloud.pools /\ x.floating = cloud.floating
      /\ x.listeners = cloud.listeners \ {port} /\ x \in OSClouds /\ IsFiniteSet(x.listeners)
  <2>1. IsFiniteSet(cloud.listeners \ {port})
    BY <1>2, FS_Subset DEF OSGood
  <2> QED BY <1>2, <2>1 DEF OSClouds
<1> HIDE DEF x
<1>5. /\ <<"drop_monitor", port>> \notin OSLeft /\ <<"drop_members", port>> \notin OSLeft
      /\ <<"drop_pool", port>> \notin OSLeft
  <2>1. \A n \in {"drop_monitor", "drop_members", "drop_pool"} : n \in Names /\ OSRank(n) < OSRank(step[1])
    BY <1>1 DEF Names, Obsolete, OSRank
  <2> QED BY <1>1, <2>1, Earlier
<1>6. cloud.pools[port] = NoneYet
  BY <1>1, <1>5, ObsoletePort
<1>7. OSStanding(x)
  BY <1>2, <1>4, <1>6 DEF OSGood, OSStanding
<1>8. OSGood(x)
  BY <1>2, <1>4, <1>7 DEF OSGood
<1>9. <<"drop_listener", port>> \notin OSRest /\ \A a : a # step => (a \in OSLeft <=> a \in OSRest)
  BY <1>1, <1>2, OSHere
<1>10. OSRest \subseteq OSLeft
  BY <1>1, OSHere
<1>11. ASSUME Ensuring(call, OSLeft, cloud), port \notin PortsOf(call.spec) PROVE Ensuring(call, OSRest, x)
  <2>1. \A n, p : n # "drop_listener" => (<<n, p>> \in OSLeft <=> <<n, p>> \in OSRest)
    BY <1>2, <1>9
  <2>2. MembersMade(call, OSRest, x)
    BY <1>1, <1>4, <1>11, MembersKept DEF Ensuring
  <2>3. \A p : p # port => (<<"drop_listener", p>> \in OSLeft <=> <<"drop_listener", p>> \in OSRest)
    BY <1>2, <1>9
  <2>4. \A p \in PortsOf(call.spec) : p # port
    BY <1>11
  <2> QED BY <1>4, <1>9, <1>10, <1>11, <2>1, <2>2, <2>3, <2>4 DEF Ensuring
<1>12. ASSUME Dropping(call, OSLeft, cloud) PROVE Dropping(call, OSRest, x)
  <2>1. OSRest \subseteq ToDrop(x.listeners)
    <3> SUFFICES ASSUME NEW a \in OSRest PROVE a \in ToDrop(x.listeners)
      OBVIOUS
    <3>1. a \in ToDrop(cloud.listeners)
      BY <1>10, <1>12 DEF Dropping
    <3>2. \A n \in Obsolete : <<n, port>> \notin OSRest
      BY <1>5, <1>9, <1>10 DEF Obsolete
    <3> QED BY <1>4, <3>1, <3>2 DEF ToDrop
  <2>2. \A n, p : p # port => (<<n, p>> \in OSLeft <=> <<n, p>> \in OSRest)
    BY <1>2, <1>9
  <2> QED BY <1>4, <1>12, <2>1, <2>2 DEF Dropping
<1>13. OSAdvances(call, x)
  <2>1. Progress(call, OSRest, x)
    BY <1>1, <1>11, <1>12, ObsoletePort DEF Progress
  <2> QED BY <2>1 DEF OSAdvances, OSRest
<1> QED BY <1>1, <1>2, <1>3, <1>8, <1>13, Acting

LEMMA DropStep ==
    ASSUME OSInv, want' = want, dropListener
    PROVE  OSInv'
  BY MonitorGone, MembersGone, PoolGone, ListenerGone DEF dropListener

-----------------------------------------------------------------------------
(***************************************************************************)
(* The other steps of UpdateLoadBalancer and EnsureLoadBalancerDeleted     *)
(***************************************************************************)
LEMMA FindPoolsStep ==
    ASSUME OSInv, want' = want, findPools
    PROVE  OSInv'
<1> DEFINE f == ForEach(<<"members", "member">>, Wanted(call.spec))
           X == {"members", "member"} \X PortsOf(call.spec)
           s == call.steps \o f
           d == [call EXCEPT !.steps = s]
<1>1. ~Idle /\ step[1] = "find_pools"
  BY DEF findPools, On, step
<1>2. /\ call \in OSCalls /\ OSContinues(call) /\ OSGood(cloud) /\ call.spec \in OSShapes
      /\ call.steps \in Seq(OSSteps) /\ Ordered(call.steps) /\ Follows(call.steps)
      /\ Len(call.steps) > 0
  BY <1>1, OSRunning DEF OSContinues, OSCalls
<1>3. StartingUpdate(call, OSLeft) /\ step = <<"find_pools", 0>>
  BY <1>1, OSHere, Parts DEF UpdateStart, PortWork, Obsolete
<1>4. OSLeft = {<<"find_pools", 0>>}
  BY <1>3 DEF StartingUpdate, UpdateStart
<1>5. \/ Read(d)
      \/ Fails /\ cloud' = cloud
  BY DEF findPools, NoRequest
<1>6. OSPlan(f, X)
  BY <1>2, UpdatePlan
<1> HIDE DEF f
<1>7. /\ s \in Seq(OSSteps) /\ Len(s) > 0 /\ Ordered(s) /\ Follows(s)
      /\ ToSet(Tail(s)) = X
  <2>1. PortsOf(call.spec) \subseteq PortNumbers /\ 0 \notin PortNumbers
    BY <1>2, Ports, NoPort
  <2>2. \A a \in ToSet(call.steps), b \in X : Before(a, b)
    BY <1>4, <2>1 DEF Before, OSLeft
  <2>3. f \in Seq(OSSteps) /\ ToSet(f) = X /\ Ordered(f) /\ Adjacent(f)
    BY <1>6 DEF OSPlan
  <2>4. /\ s \in Seq(OSSteps) /\ Ordered(s) /\ Follows(s) /\ ToSet(s) = OSLeft \cup X
    BY <1>2, <2>2, <2>3, Joins DEF OSLeft
  <2>5. Len(s) > 0 /\ Head(s) = step
    BY <1>2, <2>3 DEF step
  <2> HIDE DEF s
  <2>6. ToSet(Tail(s)) = ToSet(s) \ {step}
    BY <2>4, <2>5, Tails
  <2>7. step \notin X
    BY <1>3
  <2> QED BY <1>3, <1>4, <2>4, <2>5, <2>6, <2>7
<1> HIDE DEF s
<1>8. /\ d \in OSCalls /\ d.steps = s /\ d.op = call.op /\ d.failed = call.failed
      /\ d.deferred = call.deferred /\ d.spec = call.spec /\ d.nodes = call.nodes /\ d.seen = call.seen
  BY <1>2, <1>7 DEF OSCalls
<1>9. OSContinues(d)
  BY <1>2, <1>7, <1>8 DEF OSContinues
<1>10. OSAdvances(d, cloud)
  <2>1. MembersMade(d, X, cloud)
    BY <1>8 DEF MembersMade, MemberMade, PortsOf
  <2>2. Updating(d, X, cloud)
    BY <1>3, <1>8, <2>1 DEF Updating, StartingUpdate
  <2> QED BY <1>7, <1>8, <2>2 DEF OSAdvances, Progress
<1> HIDE DEF d
<1>11. CASE Read(d)
  BY <1>1, <1>2, <1>9, <1>10, <1>11, OSRequests, Acting
<1>12. CASE Fails /\ cloud' = cloud
  BY <1>1, <1>2, <1>12, Failing
<1> QED BY <1>5, <1>11, <1>12

\* A deletion ends early, with success.
LEMMA Cutting ==
    ASSUME OSInv, ~Idle, want' = want, cloud' = cloud, Deleting(call),
           Proceed([call EXCEPT !.steps = <<Head(call.steps)>>])
    PROVE  OSInv'
<1> DEFINE s == <<Head(call.steps)>>
           c == [call EXCEPT !.steps = s]
<1>1. call \in OSCalls /\ OSContinues(call) /\ OSGood(cloud) /\ Head(call.steps) \in OSSteps
  BY OSRunning, OSHere DEF step
<1>2. s \in Seq(OSSteps) /\ DOMAIN s = {1} /\ Len(s) > 0 /\ ~(Len(s) > 1)
  BY <1>1
<1>3. Ordered(s) /\ Follows(s)
  <2>1. \A i, j \in DOMAIN s : ~(i < j)
    BY <1>2
  <2>2. \A i \in DOMAIN s : i = 1
    BY <1>2
  <2> QED BY <2>1, <2>2 DEF Ordered, Follows
<1> HIDE DEF s
<1>4. /\ c \in OSCalls /\ c.steps = s /\ c.op = call.op /\ c.failed = call.failed
      /\ c.spec = call.spec /\ c.nodes = call.nodes /\ c.seen = call.seen
  BY <1>1, <1>2 DEF OSCalls
<1>5. OSContinues(c)
  BY <1>1, <1>2, <1>3, <1>4 DEF OSContinues
<1>6. OSAdvances(c, cloud)
  BY <1>2, <1>4 DEF OSAdvances, Deleting
<1>7. Proceed(c)
  BY DEF s
<1> HIDE DEF c
<1> QED BY <1>1, <1>5, <1>6, <1>7, Going

LEMMA FindStep ==
    ASSUME OSInv, want' = want, findLoadBalancer
    PROVE  OSInv'
<1>1. ~Idle /\ step[1] = "find"
  BY DEF findLoadBalancer, On, step
<1>2. StartingDelete(call, OSLeft, cloud) /\ step = <<"find", 0>>
  BY <1>1, OSHere, Parts DEF DeleteStart, PortWork, Obsolete
<1>3. CASE cloud.lb
  <2>1. Read(call)
    BY <1>3 DEF findLoadBalancer
  <2>2. StartingDelete(call, OSRest, cloud)
    BY <1>1, <1>2, OSHere DEF StartingDelete
  <2>3. OSAdvances(call, cloud)
    BY <2>2 DEF OSAdvances, Progress, OSRest
  <2> QED BY <1>1, <2>1, <2>3, OSRunning, OSRequests, Acting
<1>4. CASE ~cloud.lb
  <2>1. cloud' = cloud /\ Proceed([call EXCEPT !.steps = <<Head(call.steps)>>])
    BY <1>4 DEF findLoadBalancer, NoRequest
  <2>2. Deleting(call)
    BY <1>2 DEF StartingDelete
  <2> QED BY <1>1, <2>1, <2>2, Cutting
<1> QED BY <1>3, <1>4

LEMMA DropFloatingStep ==
    ASSUME OSInv, want' = want, dropFloatingIP
    PROVE  OSInv'
<1> DEFINE x == IF cloud.floating THEN [cloud EXCEPT !.floating = FALSE] ELSE cloud
<1>1. ~Idle /\ step[1] = "drop_floating"
  BY DEF dropFloatingIP, On, step
<1>2. cloud \in OSClouds /\ IsFiniteSet(cloud.listeners) /\ OSStanding(cloud)
  BY DEF OSInv, OSTypes
<1>3. Acts(x, call)
  <2>1. cloud.floating \in BOOLEAN
    BY <1>2 DEF OSClouds
  <2> QED BY <2>1, OSRequests DEF dropFloatingIP
<1>4. StartingDelete(call, OSLeft, cloud) /\ step = <<"drop_floating", 0>>
  BY <1>1, OSHere, Parts DEF DeleteStart, PortWork, Obsolete
<1>5. /\ x.lb = cloud.lb /\ x.pools = cloud.pools /\ ~x.floating /\ x \in OSClouds
      /\ x.listeners = cloud.listeners
  BY <1>2 DEF OSClouds
<1> HIDE DEF x
<1>6. OSGood(x)
  BY <1>2, <1>4, <1>5 DEF OSGood, OSStanding, StartingDelete, Deleting
<1>7. OSAdvances(call, x)
  <2>1. StartingDelete(call, OSRest, x)
    BY <1>1, <1>4, <1>5, OSHere DEF StartingDelete
  <2> QED BY <2>1 DEF OSAdvances, Progress, OSRest
<1> QED BY <1>1, <1>3, <1>6, <1>7, OSRunning, Acting

\* The listeners are read, and the steps that drop them planned.
LEMMA ListStep ==
    ASSUME OSInv, want' = want, listListeners
    PROVE  OSInv'
<1> DEFINE f == DropSteps(SetToSeq(cloud.listeners))
           X == ToDrop(cloud.listeners)
           s == call.steps \o f
           d == [call EXCEPT !.steps = s]
<1>1. ~Idle /\ step[1] = "listeners_to_drop"
  BY DEF listListeners, On, step
<1>2. /\ call \in OSCalls /\ OSContinues(call) /\ OSGood(cloud)
      /\ call.steps \in Seq(OSSteps) /\ Ordered(call.steps) /\ Follows(call.steps)
      /\ Len(call.steps) > 0 /\ cloud \in OSClouds /\ IsFiniteSet(cloud.listeners)
      /\ synced \in OSAnswers /\ want \in [present : BOOLEAN, spec : OSShapes, nodes : SUBSET BalancerNodes]
  BY <1>1, OSRunning DEF OSContinues, OSCalls, OSGood
<1>3. StartingDelete(call, OSLeft, cloud) /\ step = <<"listeners_to_drop", 0>>
  BY <1>1, OSHere, Parts DEF DeleteStart, PortWork, Obsolete
<1>4. OSLeft = {<<"listeners_to_drop", 0>>} /\ ~cloud.floating
  <2>1. <<"find", 0>> \notin OSLeft /\ <<"drop_floating", 0>> \notin OSLeft
    <3>1. /\ "find" \in Names /\ "drop_floating" \in Names
          /\ OSRank("find") < OSRank(step[1]) /\ OSRank("drop_floating") < OSRank(step[1])
      BY <1>1 DEF Names, DeleteStart, OSRank
    <3>2. port = 0
      BY <1>1, OSHere DEF PortWork, Obsolete
    <3> QED BY <1>1, <3>1, <3>2, Earlier
  <2> QED BY <1>3, <2>1 DEF StartingDelete, DeleteStart
<1>5. \/ Read(d)
      \/ call' = NoCall /\ synced' = synced /\ cloud' = cloud
  BY DEF listListeners, NoRequest
<1>6. OSPlan(f, X)
  <2>1. cloud.listeners \subseteq PortNumbers
    BY <1>2 DEF OSClouds
  <2> QED BY <1>2, <2>1, DropPlan
<1> HIDE DEF f
<1>7. /\ s \in Seq(OSSteps) /\ Len(s) > 0 /\ Ordered(s) /\ Follows(s)
      /\ ToSet(Tail(s)) = X
  <2>1. cloud.listeners \subseteq PortNumbers /\ 0 \notin PortNumbers
    BY <1>2, NoPort DEF OSClouds
  <2>2. \A a \in ToSet(call.steps), b \in X : Before(a, b)
    <3>1. \A b \in X : b[2] = 0 => b[1] \in DeleteEnd
      BY <2>1 DEF ToDrop, EndOfDelete, DeleteEnd
    <3>2. \A x \in DeleteEnd : OSRank("listeners_to_drop") < OSRank(x)
      BY DEF DeleteEnd, OSRank
    <3> HIDE DEF X
    <3> QED BY <1>4, <3>1, <3>2 DEF Before, OSLeft
  <2>3. f \in Seq(OSSteps) /\ ToSet(f) = X /\ Ordered(f) /\ Adjacent(f)
    BY <1>6 DEF OSPlan
  <2>4. step \notin X
    BY <1>3 DEF ToDrop, EndOfDelete, Obsolete
  <2> HIDE DEF X
  <2>5. /\ s \in Seq(OSSteps) /\ Ordered(s) /\ Follows(s) /\ ToSet(s) = OSLeft \cup X
    BY <1>2, <2>2, <2>3, Joins DEF OSLeft
  <2>6. Len(s) > 0 /\ Head(s) = step
    BY <1>2, <2>3 DEF step
  <2> HIDE DEF s
  <2>7. ToSet(Tail(s)) = ToSet(s) \ {step}
    BY <2>5, <2>6, Tails
  <2> QED BY <1>3, <1>4, <2>4, <2>5, <2>6, <2>7
<1> HIDE DEF s
<1>8. /\ d \in OSCalls /\ d.steps = s /\ d.op = call.op /\ d.failed = call.failed
      /\ d.deferred = call.deferred /\ d.spec = call.spec /\ d.nodes = call.nodes /\ d.seen = call.seen
  BY <1>2, <1>7 DEF OSCalls
<1>9. OSContinues(d)
  BY <1>2, <1>7, <1>8 DEF OSContinues
<1>10. OSAdvances(d, cloud)
  <2>1. Deleting(d)
    BY <1>3, <1>8 DEF StartingDelete, Deleting
  <2>2. Dropping(d, X, cloud)
    BY <1>4, <2>1 DEF Dropping, ToDrop, Obsolete
  <2> QED BY <1>7, <1>8, <2>2 DEF OSAdvances, Progress
<1> HIDE DEF d
<1>11. CASE Read(d)
  BY <1>1, <1>2, <1>9, <1>10, <1>11, OSRequests, Acting
<1>12. CASE call' = NoCall /\ synced' = synced /\ cloud' = cloud
  <2>1. Idle' /\ OSTypes'
    BY <1>2, <1>12 DEF Idle, NoCall, OSTypes
  <2> QED BY <1>12, <2>1 DEF OSInv
<1> QED BY <1>5, <1>11, <1>12

\* The load balancer goes, and has no listeners.
LEMMA DropBalancerStep ==
    ASSUME OSInv, want' = want, deleteLoadBalancer_OS
    PROVE  OSInv'
<1> DEFINE x == [cloud EXCEPT !.lb = FALSE]
<1>1. ~Idle /\ step[1] = "drop_balancer"
  BY DEF deleteLoadBalancer_OS, On, step
<1>2. cloud \in OSClouds /\ IsFiniteSet(cloud.listeners) /\ OSStanding(cloud)
  BY DEF OSInv, OSTypes
<1>3. Acts(x, call)
  BY OSRequests DEF deleteLoadBalancer_OS
<1>4. Dropping(call, OSLeft, cloud)
  BY <1>1, Parts DEF DeleteEnd
<1>5. /\ ~x.lb /\ x.pools = cloud.pools /\ x.floating = cloud.floating /\ x \in OSClouds
      /\ x.listeners = cloud.listeners
  BY <1>2 DEF OSClouds
<1> HIDE DEF x
<1>6. cloud.listeners = {}
  <2> SUFFICES ASSUME NEW p \in cloud.listeners PROVE FALSE
    OBVIOUS
  <2>1. <<"drop_listener", p>> \in OSLeft
    BY <1>4 DEF Dropping
  <2>2. <<"drop_listener", p>> # step
    BY <1>1
  <2>3. <<"drop_listener", p>> \in OSRest
    BY <1>1, <2>1, <2>2, OSHere
  <2> QED BY <1>1, <2>3, OSHere DEF Before
<1>7. OSGood(x)
  BY <1>2, <1>4, <1>5, <1>6 DEF OSGood, OSStanding, Dropping, Deleting
<1>8. OSAdvances(call, x)
  <2>1. OSRest \subseteq OSLeft
    BY <1>1, OSHere
  <2>2. Dropping(call, OSRest, x)
    BY <1>4, <1>5, <1>6, <2>1 DEF Dropping
  <2> QED BY <2>2 DEF OSAdvances, Progress, OSRest
<1> QED BY <1>1, <1>3, <1>7, <1>8, OSRunning, Acting

LEMMA CloseSteps ==
    ASSUME OSInv, want' = want, deleteSecurityGroup_OS
    PROVE  OSInv'
<1> DEFINE none   == [cloud EXCEPT !.groups = 0]
           closed == [cloud EXCEPT !.open = FALSE]
<1>1. ~Idle /\ step[1] \in {"drop_group", "close_nodes"}
  BY DEF deleteSecurityGroup_OS, On, step
<1>2. cloud \in OSClouds /\ IsFiniteSet(cloud.listeners) /\ OSStanding(cloud)
  BY DEF OSInv, OSTypes
<1>3. Dropping(call, OSLeft, cloud)
  BY <1>1, Parts DEF DeleteEnd
<1>4. ASSUME NEW x \in OSClouds, x.lb = cloud.lb, x.pools = cloud.pools, x.floating = cloud.floating,
             x.listeners = cloud.listeners
      PROVE  OSGood(x) /\ OSAdvances(call, x)
  <2>1. OSGood(x)
    BY <1>2, <1>3, <1>4 DEF OSGood, OSStanding, Dropping, Deleting
  <2>2. OSRest \subseteq OSLeft
    BY <1>1, OSHere
  <2>3. \A n, p : n \in Obsolete => (<<n, p>> \in OSLeft <=> <<n, p>> \in OSRest)
    BY <1>1, OSHere DEF Obsolete
  <2>4. Dropping(call, OSRest, x)
    BY <1>3, <1>4, <2>2, <2>3 DEF Dropping, Obsolete
  <2> QED BY <2>1, <2>4 DEF OSAdvances, Progress, OSRest
<1>5. /\ none \in OSClouds /\ none.lb = cloud.lb /\ none.pools = cloud.pools
      /\ none.floating = cloud.floating /\ none.listeners = cloud.listeners
  BY <1>2 DEF OSClouds
<1>6. /\ closed \in OSClouds /\ closed.lb = cloud.lb /\ closed.pools = cloud.pools
      /\ closed.floating = cloud.floating /\ closed.listeners = cloud.listeners
  BY <1>2 DEF OSClouds
<1>7. \/ Request(none, call)
      \/ cloud' = cloud /\ Proceed([call EXCEPT !.steps = <<Head(call.steps)>>])
      \/ Request(closed, call)
  BY DEF deleteSecurityGroup_OS, NoRequest
<1> HIDE DEF none, closed
<1>8. CASE Request(none, call)
  BY <1>1, <1>4, <1>5, <1>8, OSRunning, OSRequests, Acting
<1>9. CASE Request(closed, call)
  BY <1>1, <1>4, <1>6, <1>9, OSRunning, OSRequests, Acting
<1>10. CASE cloud' = cloud /\ Proceed([call EXCEPT !.steps = <<Head(call.steps)>>])
  <2>1. Deleting(call)
    BY <1>3 DEF Dropping
  <2> QED BY <1>1, <1>10, <2>1, Cutting
<1> QED BY <1>7, <1>8, <1>9, <1>10

-----------------------------------------------------------------------------
(***************************************************************************)
(* The invariant                                                           *)
(***************************************************************************)
\* A call begins.
LEMMA Starts ==
    ASSUME OSInv, UNCHANGED want, NEW op \in OSOps, NEW steps, NEW X, OSPlan(steps, X), X # {},
           Start(op, steps, <<>>, {}),
           \/ op = "ensure" /\ X = EnsureStart \X {0}
           \/ op = "update" /\ X = UpdateStart \X {0}
           \/ op = "delete" /\ X = DeleteStart \X {0}
    PROVE  OSInv'
<1>1. /\ want \in [present : BOOLEAN, spec : OSShapes, nodes : SUBSET BalancerNodes]
      /\ synced \in OSAnswers /\ cloud \in OSClouds /\ IsFiniteSet(cloud.listeners)
      /\ OSStanding(cloud) /\ OSAgreed(cloud, synced)
  BY DEF OSInv, OSTypes
<1>2. /\ call' = [op |-> op, steps |-> steps, deferred |-> <<>>, failed |-> FALSE, spec |-> want.spec,
                  nodes |-> IF op = "delete" THEN {} ELSE want.nodes,
                  asked |-> IF op = "delete" THEN {} ELSE want.nodes, seen |-> {}, todo |-> {},
                  answer |-> "none"]
      /\ synced' = [synced EXCEPT !.ensured = synced.ensured /\ op = "update", !.by = "none"]
      /\ cloud' = cloud /\ want' = want
      /\ op = "update" => synced.ensured /\ synced.spec = want.spec
  BY DEF Start, StartServing, NoRequest
<1>3. /\ steps \in Seq(OSSteps) /\ ToSet(steps) = X /\ Ordered(steps) /\ Follows(steps)
      /\ steps # <<>>
  <2>1. ToSet(<<>>) = {}
    BY DEF ToSet
  <2> QED BY <2>1 DEF OSPlan, Adjacent
<1>4. /\ call' \in OSCalls /\ call'.op = op /\ call'.steps = steps /\ call'.deferred = <<>>
      /\ ~call'.failed /\ call'.spec = want.spec /\ call'.seen = {}
  BY <1>1, <1>2, <1>3 DEF OSCalls
<1>5. /\ synced' \in OSAnswers /\ synced'.by = "none" /\ synced'.spec = synced.spec
      /\ synced'.ensured = (op = "update") /\ (synced'.ensured => synced.ensured)
  BY <1>1, <1>2 DEF OSAnswers
<1>6. OSAgreed(cloud, synced)'
  BY <1>1, <1>2, <1>5 DEF OSAgreed
<1>7. Progress(call, ToSet(call.steps), cloud)'
  <2>1. /\ <<"listeners", 0>> \in EnsureStart \X {0} /\ <<"balancer", 0>> \in EnsureStart \X {0}
        /\ <<"listeners_to_drop", 0>> \in DeleteStart \X {0}
        /\ <<"drop_floating", 0>> \in DeleteStart \X {0}
    BY DEF EnsureStart, DeleteStart
  <2> QED BY <1>3, <1>4, <2>1 DEF Progress, StartingEnsure, StartingUpdate, StartingDelete, Deleting
<1>8. IsFiniteSet({})
  BY FS_EmptySet
<1>9. OSTypes'
  BY <1>1, <1>2, <1>3, <1>4, <1>5, <1>8 DEF OSTypes
<1> QED BY <1>1, <1>2, <1>3, <1>4, <1>5, <1>6, <1>7, <1>9 DEF OSInv

LEMMA OpenStackWorks == ASSUME OSInv, OpenStackWork PROVE OSInv'
<1>1. want' = want
  BY DEF OpenStackWork
<1>2. <<"listeners", 0>> \in EnsureStart \X {0}
  BY DEF EnsureStart
<1>3. <<"find_pools", 0>> \in UpdateStart \X {0}
  BY DEF UpdateStart
<1>4. <<"find", 0>> \in DeleteStart \X {0}
  BY DEF DeleteStart
<1>5. CASE Start("ensure", OSEnsureSteps, <<>>, {})
  BY <1>1, <1>2, <1>5, FirstPlans, Starts DEF OSOps
<1>6. CASE Start("update", OSUpdateSteps, <<>>, {})
  BY <1>1, <1>3, <1>6, FirstPlans, Starts DEF OSOps
<1>7. CASE Start("delete", OSDeleteSteps, <<>>, {})
  BY <1>1, <1>4, <1>7, FirstPlans, Starts DEF OSOps
<1> QED BY <1>1, <1>5, <1>6, <1>7, OSBalancerStep, ListenersStep, ListenerStep, PoolStep, MembersStep,
           MemberStep, MonitorStep, DropStep, FloatingStep, GroupSteps, FindPoolsStep, FindStep,
           DropFloatingStep, ListStep, DropBalancerStep, CloseSteps DEF OpenStackWork

\* The Service or the nodes change.
LEMMA Changes == ASSUME OSInv, Change(OSShapes) PROVE OSInv'
<1>1. UNCHANGED <<synced, cloud, call>>
  BY DEF Change
<1>2. want \in [present : BOOLEAN, spec : OSShapes, nodes : SUBSET BalancerNodes]
  BY DEF OSInv, OSTypes
<1>3. want' \in [present : BOOLEAN, spec : OSShapes, nodes : SUBSET BalancerNodes]
  BY <1>2 DEF Change
<1>4. OSTypes'
  BY <1>1, <1>3 DEF OSInv, OSTypes
<1> QED BY <1>1, <1>4 DEF OSInv, Idle

LEMMA Initially == Init => OSHolds
<1> SUFFICES ASSUME Init, provider = "openstack" PROVE OSInv
  BY DEF OSHolds
<1>1. OpenStackInit
  BY DEF Init, AWSInit, GCEInit, ServiceInit
<1>2. /\ cloud = [lb |-> FALSE, listeners |-> {}, pools |-> [p \in PortNumbers |-> NoneYet],
                  floating |-> FALSE, groups |-> 0, open |-> FALSE]
      /\ call = NoCall
      /\ \E s \in OSShapes : want = [present |-> TRUE, spec |-> s, nodes |-> BalancerNodes]
      /\ synced = [spec |-> want.spec, ensured |-> FALSE, by |-> "none", nodes |-> {},
                   asked |-> {}, known |-> BalancerNodes, answer |-> "none"]
  BY <1>1 DEF OpenStackInit, ServiceInit
<1>3. want \in [present : BOOLEAN, spec : OSShapes, nodes : SUBSET BalancerNodes]
  BY <1>2
<1>4. synced \in OSAnswers /\ ~synced.ensured
  BY <1>2, <1>3 DEF OSAnswers
<1>5. cloud \in OSClouds
  BY <1>2 DEF OSClouds, OSPools, NoneYet
<1>6. cloud.listeners = {} /\ ~cloud.floating /\ \A p \in PortNumbers : cloud.pools[p] = NoneYet
  BY <1>2
<1>7. IsFiniteSet(cloud.listeners)
  BY <1>6, FS_EmptySet
<1>8. Idle
  BY <1>2 DEF Idle, NoCall
<1> QED BY <1>2, <1>3, <1>4, <1>5, <1>6, <1>7, <1>8 DEF OSInv, OSTypes, OSStanding, OSAgreed

LEMMA OneStep == OSHolds /\ [Next]_vars => OSHolds'
<1> SUFFICES ASSUME OSHolds, [Next]_vars, provider' = "openstack" PROVE OSInv'
  BY DEF OSHolds
<1>1. CASE UNCHANGED balancerVars
  <2>1. provider = "openstack" /\ OSInv
    BY <1>1 DEF balancerVars, OSHolds
  <2> QED BY <1>1, <2>1 DEF balancerVars, OSInv, OSTypes, Idle
<1>2. CASE Elsewhere(OpenStackNext)
  <2>1. provider = "openstack" /\ (OpenStackWork \/ Change(OSShapes))
    BY <1>2 DEF Elsewhere, Balancer, OpenStackNext, OpenStackWork
  <2>2. OSInv
    BY <2>1 DEF OSHolds
  <2> QED BY <2>1, <2>2, OpenStackWorks, Changes
<1>3. ~Balancer(AWSNext) /\ ~Elsewhere(GCENext)
  BY DEF Elsewhere, Balancer, AWSNext, AWSWork, NodeStopsOrStarts, GCENext, GCEWork, Change
<1>4. UNCHANGED vars => UNCHANGED balancerVars
  BY DEF vars, balancerVars
<1> QED BY <1>1, <1>2, <1>3, <1>4 DEF Next

(***************************************************************************)
(* At each step of EnsureLoadBalancer, UpdateLoadBalancer and EnsureLoad-  *)
(* BalancerDeleted, also one that cleans up behind a failure, the steps    *)
(* left are in the order of the code, and what is not left is done.        *)
(***************************************************************************)
THEOREM OpenStackInvariant == Spec => []OSHolds
<1> QED BY Initially, OneStep, PTL DEF Spec

(***************************************************************************)
(* After EnsureLoadBalancer has succeeded there are listeners for the      *)
(* ports of the Service and no others, with their pools and monitors, and  *)
(* after it or UpdateLoadBalancer the members of each pool are the nodes.  *)
(***************************************************************************)
THEOREM OpenStackExact == Spec => []OpenStackEnsuredIsExact
<1>1. OSHolds => OpenStackEnsuredIsExact
  <2> SUFFICES ASSUME OSInv, synced.ensured
               PROVE  /\ OpenStackFits(synced.spec)
                      /\ synced.by /= "none" =>
                           \A k \in ToSet(synced.spec) :
                              cloud.pools[k.port].members = synced.nodes \X {k.nodePort}
    BY DEF OSHolds, OpenStackEnsuredIsExact
  <2>1. synced.spec \in OSShapes
    BY DEF OSInv, OSTypes, OSAnswers
  <2>2. OSFitsIn(cloud, synced.spec) /\ (synced.by # "none" => MembersAre(cloud, synced.spec, synced.nodes))
    BY DEF OSInv, OSAgreed
  <2>3. ToSet(Wanted(synced.spec)) = PortsOf(synced.spec)
    BY <2>1, Ports
  <2>4. OpenStackFits(synced.spec)
    BY <2>2, <2>3 DEF OpenStackFits, OSFitsIn
  <2>5. ASSUME synced.by # "none", NEW k \in ToSet(synced.spec)
        PROVE  cloud.pools[k.port].members = synced.nodes \X {k.nodePort}
    BY <2>2, <2>5 DEF ToSet, MembersAre
  <2> QED BY <2>4, <2>5
<1> QED BY <1>1, OpenStackInvariant, PTL

(***************************************************************************)
(* Whatever fails and whatever is repeated, the listeners of a load        *)
(* balancer hold its pools, and the load balancer its listeners and its    *)
(* address: deletion, which starts from the load balancer, finds all.      *)
(***************************************************************************)
THEOREM NoneLost == Spec => []NothingIsLost
<1>1. OSHolds => NothingIsLost
  BY DEF OSHolds, OSInv, OSStanding, NothingIsLost
<1> QED BY <1>1, OpenStackInvariant, PTL

=============================================================================
