-------------------------- MODULE MCCloudProviders --------------------------
(***************************************************************************)
(* Two volumes, one of them asked for on two nodes, with two device names; *)
(* a Service with three shapes: they share a listener, change a node port, *)
(* drop a port, and differ in the proxy policy, the ranges, the subnets    *)
(* and the attributes.                                                     *)
(***************************************************************************)
EXTENDS CloudProviders, TLC

CONSTANTS v1, v2, n1, n2, g1, g2, g3

MCReach == v1 :> {n1, n2} @@ v2 :> {n1}

\* A tagged group each; one beside an untagged one, and that alone; two tagged ones, and none
MCGroupings == {n1 :> {g1}     @@ n2 :> {g2},
                n1 :> {g1, g3} @@ n2 :> {g3},
                n1 :> {g1, g2} @@ n2 :> {}}

Listener(p, q) == [port |-> p, nodePort |-> q]

MCShapes ==
    {[listeners |-> {Listener("80", "30080"), Listener("443", "30443")},
      ranges |-> {"0.0.0.0/0"}, proxy |-> TRUE, subnets |-> {"a", "b"},
      attributes |-> "default", health |-> "30080"],
     [listeners |-> {Listener("80", "31080"), Listener("443", "30443")},
      ranges |-> {"10.0.0.0/8"}, proxy |-> TRUE, subnets |-> {"b", "c"},
      attributes |-> "logged", health |-> "31080"],
     [listeners |-> {Listener("443", "30443")},
      ranges |-> {"0.0.0.0/0"}, proxy |-> FALSE, subnets |-> {"b", "c"},
      attributes |-> "logged", health |-> "30443"]}

\* Two that leave the address to GCE, one that asks for one of GCE's, two for the user's
GCEShape(ip, ports, protocol, affinity, check) ==
    [ip |-> ip, ports |-> ports, protocol |-> protocol, ranges |-> {"0.0.0.0/0"},
     affinity |-> affinity, check |-> check]

MCGCEShapes ==
    {GCEShape("none", {80, 443}, "TCP", "NONE", "none"),
     [GCEShape("none", {80, 90}, "TCP", "CLIENT_IP", "30001") EXCEPT !.ranges = {"10.0.0.0/8"}],
     GCEShape("ip1", {80, 443}, "TCP", "NONE", "30002"),
     GCEShape("user", {80, 443}, "TCP", "NONE", "none"),
     GCEShape("user", {80, 443}, "UDP", "CLIENT_IP", "30001")}

MCOneGCEShape == {GCEShape("user", {80, 443}, "TCP", "NONE", "none")}

\* Two ports, the node port of one changes, the other goes.
MCOSShapes ==
    {<<[port |-> 80, nodePort |-> 30080], [port |-> 443, nodePort |-> 30443]>>,
     <<[port |-> 80, nodePort |-> 31080]>>}

MCOneOSShape == {<<[port |-> 80, nodePort |-> 31080]>>}
=============================================================================
