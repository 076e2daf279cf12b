SPECIFICATION Spec
CONSTANTS
    v1 = v1
    v2 = v2
    n1 = n1
    n2 = n2
    g1 = g1
    g2 = g2
    g3 = g3
    Volumes = {v1, v2}
    Nodes = {n1, n2}
    Reach <- MCReach
    NDevices = 2
    MaxDiskFaults = 1
    Shapes <- MCShapes
    BalancerNodes = {n1, n2}
    SecurityGroups = {g1, g2, g3}
    TaggedGroups = {g1, g2}
    Groupings <- MCGroupings
    GCEShapes <- MCGCEShapes
    OSShapes <- MCOSShapes
    ManageSecurityGroups = TRUE
    IPs = {"ip1", "ip2"}
    UserIPs = {"user"}
    MaxTargetPoolCreateInstances = 1
    MaxChanges = 1
    MaxBalancerFaults = 0
INVARIANTS
    HealthCheckIsCurrent
\* The changes of the Service are bounded: the system stops.
CHECK_DEADLOCK FALSE
