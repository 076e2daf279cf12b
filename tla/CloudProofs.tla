----------------------------- MODULE CloudProofs -----------------------------
(***************************************************************************)
(* Theorems about CloudProviders: of AttachDisk and DetachDisk of the AWS  *)
(* provider, for any number of volumes, nodes, devices and faults, and of  *)
(* the types of the volumes and of the load balancers of all providers.    *)
(***************************************************************************)
EXTENDS BalancerProofs, GCEProofs, OpenStackProofs

\* What nextDevice and GetNext give: a device without a mapping, or none.
LEMMA GetNextIsFree ==
    ASSUME NEW last \in Devices, NEW mappings
    PROVE  /\ GetNext(last, mappings) \in 0 .. NDevices
           /\ GetNext(last, mappings) /= NDevices => mappings[GetNext(last, mappings)] = Nobody
<1> DEFINE free  == {k \in 1 .. NDevices : mappings[Ring(last)[k]] = Nobody}
           first == {k \in free : \A j \in free : k <= j}
           k0    == CHOOSE k \in first : TRUE
<1>1. NDevices \in Nat \ {0}
  BY DevicesAssumption
<1>2. CASE first = {}
  BY <1>1, <1>2 DEF GetNext
<1>3. CASE first /= {}
  <2>1. k0 \in first
    BY <1>3
  <2>2. k0 \in 1 .. NDevices /\ mappings[Ring(last)[k0]] = Nobody
    BY <2>1
  <2>3. GetNext(last, mappings) = Ring(last)[k0]
    BY <1>3 DEF GetNext
  <2>4. Ring(last)[k0] = (last + k0) % NDevices
    BY <2>2 DEF Ring
  <2>5. (last + k0) % NDevices \in 0 .. NDevices - 1
    BY <1>1, <2>2 DEF Devices
  <2> QED
    BY <1>1, <2>2, <2>3, <2>4, <2>5
<1> QED
  BY <1>2, <1>3

-----------------------------------------------------------------------------
LEMMA NoDisk_OK == CallOK(NoDisk)
<1>1. NDevices \in 0 .. NDevices /\ Nothing \in [Devices -> Volumes \cup {Nobody}]
  BY DevicesAssumption DEF Nothing
<1> QED
  BY <1>1 DEF CallOK, Calls, NoDisk, Nobody

\* The call of one volume changes, and nothing else of what has a type.
LEMMA OneCall ==
    ASSUME DiskTypeOK, NEW v \in Volumes, NEW c, CallOK(c), disk' = [disk EXCEPT ![v] = c],
           attachment' \in [Volumes -> Places],
           attaching' \in [Nodes -> [Devices -> Volumes \cup {Nobody}]],
           lastIndex' \in [Nodes -> Devices], running' \subseteq Nodes
    PROVE  DiskTypeOK'
BY DEF DiskTypeOK, CallOK

LEMMA EndAttaching_OK ==
    ASSUME DiskTypeOK, NEW v \in Volumes, endAttaching(v)
    PROVE  attaching' \in [Nodes -> [Devices -> Volumes \cup {Nobody}]]
BY DEF DiskTypeOK, endAttaching

LEMMA DiskTypeInit == DiskInit => DiskTypeOK
<1> SUFFICES ASSUME DiskInit PROVE DiskTypeOK
  OBVIOUS
<1>1. NDevices \in 0 .. NDevices /\ 0 \in Devices
  BY DevicesAssumption DEF Devices
<1>2. Detached \in Places
  BY <1>1 DEF Detached, Places
<1>3. CallOK(NoDisk) /\ NoDisk \in Calls
  BY NoDisk_OK DEF CallOK
<1> QED
  BY <1>1, <1>2, <1>3 DEF DiskInit, DiskTypeOK

\* DetachDisk of a node without a running instance looks at nothing.
DetachUnseen(v, n) ==
    /\ n \notin running /\ answer' = Detaches(v, n)
    /\ UNCHANGED <<attachment, attaching, lastIndex, running, disk>>

LEMMA DetachUnseen_Rest ==
    ASSUME NEW v, NEW n, DetachDisk(v, n)
    PROVE  StartDisk(v, n, "detach") \/ DetachUnseen(v, n)
BY DEF DetachDisk, DetachUnseen

LEMMA Running_OK ==
    ASSUME DiskTypeOK, [DiskNext]_diskVars
    PROVE  running' \subseteq Nodes
<1>1. running \subseteq Nodes
  BY DEF DiskTypeOK
<1>2. ASSUME NEW n \in Nodes, InstanceStopsOrStarts(n) PROVE running' \subseteq Nodes
  BY <1>1, <1>2 DEF InstanceStopsOrStarts
<1>3. ASSUME NEW v \in Volumes, NEW n, AttachDisk(v, n) \/ DetachDisk(v, n) PROVE UNCHANGED running
  BY <1>3 DEF AttachDisk, DetachDisk, StartDisk
<1>4. ASSUME NEW v \in Volumes,
             \/ getMountDevice(v) \/ AttachVolume(v) \/ WaitAttached(v)
             \/ DetachVolume(v) \/ WaitDetached(v) \/ EC2Settles(v) \/ ForcedDetach(v)
      PROVE  UNCHANGED running
  BY <1>4 DEF getMountDevice, AttachVolume, WaitAttached, DetachVolume, WaitDetached,
              EC2Settles, ForcedDetach
<1>5. DiskRestart \/ UNCHANGED diskVars => UNCHANGED running
  BY DEF DiskRestart, diskVars
<1> QED
  BY <1>1, <1>2, <1>3, <1>4, <1>5 DEF DiskNext

LEMMA DiskTypeStep ==
    ASSUME DiskTypeOK, [DiskNext]_diskVars
    PROVE  DiskTypeOK'
<1> USE DevicesAssumption
<1>1. /\ disk \in [Volumes -> Calls] /\ \A v \in Volumes : CallOK(disk[v])
      /\ attaching \in [Nodes -> [Devices -> Volumes \cup {Nobody}]]
      /\ lastIndex \in [Nodes -> Devices]
      /\ attachment \in [Volumes -> Places]
  BY DEF DiskTypeOK
<1>r. running' \subseteq Nodes
  BY Running_OK
<1>2. ASSUME NEW v \in Volumes, NEW n \in Reach[v], AttachDisk(v, n) \/ DetachDisk(v, n)
      PROVE  DiskTypeOK'
  <2> SUFFICES ASSUME NEW op \in {"attach", "detach"}, StartDisk(v, n, op) PROVE DiskTypeOK'
    BY <1>2, DetachUnseen_Rest DEF AttachDisk, DetachDisk, DetachUnseen, DiskTypeOK
  <2>1. StartDisk(v, n, op)
    OBVIOUS
  <2>2. n \in Nodes
    OBVIOUS
  <2>3. describeInstance(n) \in [Devices -> Volumes \cup {Nobody}]
    <3> SUFFICES ASSUME NEW d \in Devices
                 PROVE  describeInstance(n)[d] \in Volumes \cup {Nobody}
      BY DEF describeInstance
    <3>1. CASE \E w \in Volumes : attachment[w].node = n /\ attachment[w].device = d
      BY <3>1 DEF describeInstance
    <3>2. CASE ~\E w \in Volumes : attachment[w].node = n /\ attachment[w].device = d
      BY <3>2 DEF describeInstance
    <3> QED
      BY <3>1, <3>2
  <2> DEFINE c == [NoDisk EXCEPT !.op = op, !.at = "device", !.node = n, !.seen = describeInstance(n)]
  <2>4. CallOK(c)
    BY <2>1, <2>2, <2>3, NoDisk_OK DEF CallOK, Calls, NoDisk, Nobody
  <2>5. disk' = [disk EXCEPT ![v] = c]
    BY <2>1 DEF StartDisk
  <2> QED
    BY <1>1, <2>1, <2>4, <2>5, <1>r, OneCall DEF StartDisk
<1>3. ASSUME NEW v \in Volumes, getMountDevice(v) PROVE DiskTypeOK'
  <2> DEFINE n    == disk[v].node
             next == GetNext(lastIndex[n], deviceMappings(v))
  <2>1. CallOK(disk[v]) /\ disk[v].at = "device"
    BY <1>1, <1>3 DEF getMountDevice
  <2>2. disk[v].op /= Nobody /\ n \in Nodes /\ disk[v] \in Calls
    BY <2>1 DEF CallOK, Nobody
  <2>3. next \in 0 .. NDevices
    BY <1>1, <2>2, GetNextIsFree
  <2>4. attachment' = attachment
    BY <1>3 DEF getMountDevice
  <2>5. Nothing \in [Devices -> Volumes \cup {Nobody}]
    BY DEF Nothing
  <2>6. ASSUME NEW d \in Devices,
               disk' = [disk EXCEPT ![v].device = d, ![v].already = TRUE, ![v].seen = Nothing,
                           ![v].at = IF disk[v].op = "attach" THEN "wait" ELSE "request"],
               UNCHANGED <<attaching, lastIndex>>
        PROVE  DiskTypeOK'
    <3> DEFINE c == [disk[v] EXCEPT !.device = d, !.already = TRUE, !.seen = Nothing,
                           !.at = IF disk[v].op = "attach" THEN "wait" ELSE "request"]
    <3>1. disk' = [disk EXCEPT ![v] = c]
      BY <1>1, <2>6
    <3>2. d \in 0 .. NDevices
      BY DEF Devices
    <3>3. CallOK(c)
      <4> DEFINE b == [disk[v] EXCEPT !.device = d, !.already = TRUE, !.seen = Nothing]
      <4>1. b \in Calls /\ b.op = disk[v].op /\ b.node = n /\ b.device = d
        BY <2>2, <2>5, <3>2 DEF Calls
      <4>2. c = [b EXCEPT !.at = IF disk[v].op = "attach" THEN "wait" ELSE "request"]
        OBVIOUS
      <4> HIDE DEF b, c
      <4> QED
        BY <2>2, <4>1, <4>2 DEF CallOK, Calls, Nobody
    <3> HIDE DEF c
    <3> QED
      BY <1>1, <2>4, <2>6, <3>1, <3>3, <1>r, OneCall
  <2>7. ASSUME disk[v].op = "detach", disk' = [disk EXCEPT ![v].at = "request", ![v].seen = Nothing],
               UNCHANGED <<attaching, lastIndex>>
        PROVE  DiskTypeOK'
    <3> DEFINE c == [disk[v] EXCEPT !.at = "request", !.seen = Nothing]
    <3>1. disk' = [disk EXCEPT ![v] = c]
      BY <1>1, <2>7
    <3>2. CallOK(c)
      BY <2>1, <2>2, <2>5, <2>7 DEF CallOK, Calls, Nobody
    <3> HIDE DEF c
    <3> QED
      BY <1>1, <2>4, <2>7, <3>1, <3>2, <1>r, OneCall
  <2>8. ASSUME DiskReturns(v), UNCHANGED <<attaching, lastIndex>>
        PROVE  DiskTypeOK'
    BY <1>1, <2>4, <2>8, NoDisk_OK, <1>r, OneCall DEF DiskReturns
  <2>9. ASSUME disk[v].op = "attach", ~NoDevices(next),
               disk' = [disk EXCEPT ![v].device = next, ![v].at = "request", ![v].seen = Nothing],
               attaching' = [attaching EXCEPT ![n][next] = v],
               lastIndex' = [lastIndex EXCEPT ![n] = next]
        PROVE  DiskTypeOK'
    <3> DEFINE c == [disk[v] EXCEPT !.device = next, !.at = "request", !.seen = Nothing]
    <3>1. disk' = [disk EXCEPT ![v] = c]
      BY <1>1, <2>9
    <3>2. next \in Devices
      BY <2>3, <2>9 DEF NoDevices, Devices
    <3>3. CallOK(c)
      <4> HIDE DEF next
      <4> QED
        BY <2>1, <2>2, <2>3, <2>5, <2>9, <3>2 DEF CallOK, Calls, Nobody
    <3> HIDE DEF c, next
    <3> QED
      BY <1>1, <2>2, <2>4, <2>9, <3>1, <3>2, <3>3, <1>r, OneCall
  <2> HIDE DEF next
  <2> QED
    BY <1>3, <2>6, <2>7, <2>8, <2>9 DEF getMountDevice, deviceMappings, next, n
<1>4. ASSUME NEW v \in Volumes, AttachVolume(v) PROVE DiskTypeOK'
  <2>1. CallOK(disk[v]) /\ disk[v] \in Calls
    BY <1>1 DEF CallOK
  <2>2. attachment' \in [Volumes -> Places]
    <3> DEFINE place == [node |-> disk[v].node, device |-> disk[v].device, state |-> "attaching"]
    <3>1. place \in Places
      BY <2>1 DEF Calls, Places
    <3>2. attachment' = attachment \/ attachment' = [attachment EXCEPT ![v] = place]
      BY <1>4 DEF AttachVolume
    <3> HIDE DEF place
    <3> QED
      BY <1>1, <3>1, <3>2
  <2>3. CASE disk' = [disk EXCEPT ![v].at = "wait"] /\ attaching' = attaching
    <3> DEFINE c == [disk[v] EXCEPT !.at = "wait"]
    <3>1. disk' = [disk EXCEPT ![v] = c]
      BY <1>1, <2>3
    <3>2. CallOK(c)
      BY <1>4, <2>1 DEF CallOK, Calls, AttachVolume, Nobody
    <3> HIDE DEF c
    <3> QED
      BY <1>1, <1>4, <2>2, <2>3, <3>1, <3>2, <1>r, OneCall DEF AttachVolume
  <2>4. CASE endAttaching(v) /\ DiskReturns(v)
    BY <1>1, <1>4, <2>2, <2>4, NoDisk_OK, EndAttaching_OK, <1>r, OneCall DEF AttachVolume, DiskReturns
  <2> QED
    BY <1>4, <2>3, <2>4 DEF AttachVolume
<1>5. ASSUME NEW v \in Volumes, WaitAttached(v) \/ WaitDetached(v) PROVE DiskTypeOK'
  <2>1. disk' = [disk EXCEPT ![v] = NoDisk] /\ UNCHANGED <<attachment, lastIndex>>
    BY <1>5 DEF WaitAttached, WaitDetached, DiskReturns
  <2>2. attaching' \in [Nodes -> [Devices -> Volumes \cup {Nobody}]]
    BY <1>1, <1>5, EndAttaching_OK DEF WaitAttached, WaitDetached
  <2> QED
    BY <1>1, <2>1, <2>2, NoDisk_OK, <1>r, OneCall
<1>6. ASSUME NEW v \in Volumes, DetachVolume(v) PROVE DiskTypeOK'
  <2>1. CallOK(disk[v]) /\ disk[v] \in Calls
    BY <1>1 DEF CallOK
  <2>2. attachment' \in [Volumes -> Places]
    <3> DEFINE place == [attachment[v] EXCEPT !.state = "detaching"]
    <3>1. place \in Places
      BY <1>1 DEF Places
    <3>2. attachment' = attachment \/ attachment' = [attachment EXCEPT ![v] = place]
      BY <1>1, <1>6 DEF DetachVolume
    <3> HIDE DEF place
    <3> QED
      BY <1>1, <3>1, <3>2
  <2>3. UNCHANGED <<attaching, lastIndex>>
    BY <1>6 DEF DetachVolume
  <2>4. CASE disk' = [disk EXCEPT ![v].at = "wait"]
    <3> DEFINE c == [disk[v] EXCEPT !.at = "wait"]
    <3>1. disk' = [disk EXCEPT ![v] = c]
      BY <1>1, <2>4
    <3>2. CallOK(c)
      BY <1>6, <2>1 DEF CallOK, Calls, DetachVolume, Nobody
    <3> HIDE DEF c
    <3> QED
      BY <1>1, <2>2, <2>3, <3>1, <3>2, <1>r, OneCall
  <2>5. CASE DiskReturns(v)
    BY <1>1, <2>2, <2>3, <2>5, NoDisk_OK, <1>r, OneCall DEF DiskReturns
  <2> QED
    BY <1>6, <2>4, <2>5 DEF DetachVolume
<1>7. ASSUME NEW v \in Volumes, EC2Settles(v) \/ ForcedDetach(v) PROVE DiskTypeOK'
  <2> DEFINE place == [attachment[v] EXCEPT !.state = "attached"]
  <2>1. Detached \in Places
    BY DEF Detached, Places
  <2>2. place \in Places
    BY <1>1 DEF Places
  <2>3. \/ attachment' = [attachment EXCEPT ![v] = place]
        \/ attachment' = [attachment EXCEPT ![v] = Detached]
    BY <1>1, <1>7 DEF EC2Settles, ForcedDetach
  <2>4. UNCHANGED <<attaching, lastIndex, disk>>
    BY <1>7 DEF EC2Settles, ForcedDetach
  <2> HIDE DEF place
  <2>5. attachment' \in [Volumes -> Places]
    BY <1>1, <2>1, <2>2, <2>3
  <2> QED
    BY <1>1, <1>r, <2>4, <2>5 DEF DiskTypeOK, CallOK
<1>8. CASE DiskRestart
  <2>1. 0 \in Devices /\ NoDisk \in Calls
    BY NoDisk_OK DEF Devices, CallOK
  <2> QED
    BY <1>1, <1>r, <1>8, <2>1, NoDisk_OK DEF DiskRestart, DiskTypeOK, CallOK, Calls
<1>9. CASE UNCHANGED diskVars
  BY <1>9 DEF diskVars, DiskTypeOK
<1>10. ASSUME NEW n \in Nodes, InstanceStopsOrStarts(n) PROVE DiskTypeOK'
  BY <1>r, <1>10 DEF InstanceStopsOrStarts, DiskTypeOK
<1> QED
  BY <1>2, <1>3, <1>4, <1>5, <1>6, <1>7, <1>8, <1>9, <1>10 DEF DiskNext

LEMMA DiskTypeCorrect == Spec => []DiskTypeOK
<1>1. DiskTypeOK /\ [Next]_vars => DiskTypeOK'
  <2>1. [Next]_vars => [DiskNext]_diskVars
    BY DEF Next, Elsewhere, Balancer, vars, diskVars
  <2> QED
    BY <2>1, DiskTypeStep
<1>2. Init => DiskTypeOK
  BY DiskTypeInit DEF Init
<1> QED
  BY <1>1, <1>2, PTL DEF Spec

-----------------------------------------------------------------------------
\* An attach of v that asked for its device, or is about to
Attaching(v) == disk[v].op = "attach" /\ disk[v].at \in {"request", "wait"} /\ ~disk[v].already

LEMMA ListedStep ==
    ASSUME DiskTypeOK, InProgressIsListed, [DiskNext]_diskVars
    PROVE  InProgressIsListed'
<1> USE DEF InProgressIsListed, Attaching
<1>1. "none" \notin Volumes /\ disk \in [Volumes -> Calls] /\ \A v \in Volumes : CallOK(disk[v])
  BY DevicesAssumption DEF DiskTypeOK
<1>2. attaching \in [Nodes -> [Devices -> Volumes \cup {Nobody}]] /\ lastIndex \in [Nodes -> Devices]
  BY DEF DiskTypeOK
<1>3. ASSUME NEW v \in Volumes, endAttaching(v) \/ UNCHANGED attaching,
             \A w \in Volumes \ {v} : disk'[w] = disk[w], ~Attaching(v)'
      PROVE  InProgressIsListed'
  <2> SUFFICES ASSUME NEW w \in Volumes, Attaching(w)'
               PROVE  attaching'[disk'[w].node][disk'[w].device] = w
    OBVIOUS
  <2>1. w /= v /\ disk'[w] = disk[w]
    BY <1>3
  <2>2. attaching[disk[w].node][disk[w].device] = w
    BY <2>1
  <2>3. disk[w].node \in Nodes /\ disk[w].device \in Devices
    BY <1>1, <2>1 DEF CallOK, Nobody
  <2> QED
    BY <1>2, <1>3, <2>1, <2>2, <2>3 DEF endAttaching
<1>4. ASSUME NEW v \in Volumes, NEW n \in Reach[v], AttachDisk(v, n) \/ DetachDisk(v, n)
      PROVE  InProgressIsListed'
  <2> SUFFICES ASSUME NEW op \in {"attach", "detach"}, StartDisk(v, n, op)
               PROVE  InProgressIsListed'
    BY <1>4, DetachUnseen_Rest DEF AttachDisk, DetachUnseen
  <2>1. StartDisk(v, n, op)
    OBVIOUS
  <2>2. disk'[v].at = "device" /\ UNCHANGED attaching
    BY <1>1, <2>1 DEF StartDisk, NoDisk
  <2>3. \A w \in Volumes \ {v} : disk'[w] = disk[w]
    BY <1>1, <2>1 DEF StartDisk
  <2> QED
    BY <1>3, <2>2, <2>3
<1>5. ASSUME NEW v \in Volumes, getMountDevice(v) PROVE InProgressIsListed'
  <2> DEFINE n    == disk[v].node
             next == GetNext(lastIndex[n], deviceMappings(v))
  <2>1. n \in Nodes
    BY <1>1, <1>5 DEF getMountDevice, CallOK, Nobody
  <2>2. CASE /\ ~NoDevices(next)
             /\ disk' = [disk EXCEPT ![v].device = next, ![v].at = "request", ![v].seen = Nothing]
             /\ attaching' = [attaching EXCEPT ![n][next] = v]
    <3>1. next \in Devices /\ attaching[n][next] = Nobody
      <4>1. next \in 0 .. NDevices /\ (next /= NDevices => deviceMappings(v)[next] = Nobody)
        BY <1>2, <2>1, GetNextIsFree
      <4> HIDE DEF next
      <4>2. next \in Devices
        BY <2>2, <4>1, DevicesAssumption DEF NoDevices, Devices
      <4> QED
        BY <2>2, <4>1, <4>2 DEF NoDevices, deviceMappings
    <3> HIDE DEF next
    <3>2. disk'[v].node = n /\ disk'[v].device = next
      BY <1>1, <2>2 DEF Calls
    <3>3. attaching'[n][next] = v
      BY <1>2, <2>1, <2>2, <3>1
    <3>4. ASSUME NEW w \in Volumes \ {v}, Attaching(w)
          PROVE  attaching'[disk[w].node][disk[w].device] = w
      <4>1. attaching[disk[w].node][disk[w].device] = w /\ w /= Nobody
        BY <1>1, <3>4 DEF Nobody
      <4>2. disk[w].node \in Nodes /\ disk[w].device \in Devices
        BY <1>1, <3>4 DEF CallOK, Nobody
      <4> QED
        BY <1>2, <2>1, <2>2, <3>1, <4>1, <4>2
    <3>5. \A w \in Volumes \ {v} : disk'[w] = disk[w]
      BY <1>1, <2>2
    <3> QED
      BY <3>2, <3>3, <3>4, <3>5
  <2>3. CASE UNCHANGED attaching
    <3>1. \A w \in Volumes \ {v} : disk'[w] = disk[w]
      BY <1>1, <1>5 DEF getMountDevice, DiskReturns
    <3>2. CASE \E d \in Devices :
                 disk' = [disk EXCEPT ![v].device = d, ![v].already = TRUE, ![v].seen = Nothing,
                             ![v].at = IF disk[v].op = "attach" THEN "wait" ELSE "request"]
      <4>1. disk'[v].already
        BY <1>1, <3>2 DEF Calls
      <4> QED
        BY <1>3, <2>3, <3>1, <4>1
    <3>3. CASE disk[v].op = "detach" /\ disk' = [disk EXCEPT ![v].at = "request", ![v].seen = Nothing]
      <4>1. disk'[v].op = "detach"
        BY <1>1, <3>3 DEF Calls
      <4> QED
        BY <1>3, <2>3, <3>1, <4>1
    <3>4. CASE disk' = [disk EXCEPT ![v] = NoDisk]
      BY <1>1, <1>3, <2>3, <3>1, <3>4 DEF NoDisk, Nobody
    <3>5. CASE /\ ~NoDevices(next)
               /\ attaching' = [attaching EXCEPT ![n][next] = v]
               /\ disk' = [disk EXCEPT ![v].device = next, ![v].at = "request", ![v].seen = Nothing]
      BY <2>2, <3>5
    <3> QED
      BY <1>5, <3>2, <3>3, <3>4, <3>5 DEF getMountDevice, DiskReturns
  <2> QED
    BY <1>5, <2>2, <2>3 DEF getMountDevice
<1>6. ASSUME NEW v \in Volumes, AttachVolume(v) PROVE InProgressIsListed'
  <2>1. CASE UNCHANGED attaching /\ disk' = [disk EXCEPT ![v].at = "wait"]
    BY <1>1, <1>6, <2>1 DEF AttachVolume, Calls
  <2>2. CASE endAttaching(v) /\ disk' = [disk EXCEPT ![v] = NoDisk]
    BY <1>1, <1>3, <2>2 DEF NoDisk, Nobody
  <2> QED
    BY <1>6, <2>1, <2>2 DEF AttachVolume, DiskReturns
<1>7. ASSUME NEW v \in Volumes, WaitAttached(v) \/ WaitDetached(v) PROVE InProgressIsListed'
  BY <1>1, <1>3, <1>7 DEF WaitAttached, WaitDetached, DiskReturns, NoDisk, Nobody
<1>8. ASSUME NEW v \in Volumes, DetachVolume(v) PROVE InProgressIsListed'
  <2>1. UNCHANGED attaching /\ disk[v].op = "detach"
    BY <1>8 DEF DetachVolume
  <2>2. disk' = [disk EXCEPT ![v].at = "wait"] \/ disk' = [disk EXCEPT ![v] = NoDisk]
    BY <1>8 DEF DetachVolume, DiskReturns
  <2>3. disk'[v].op /= "attach" /\ \A w \in Volumes \ {v} : disk'[w] = disk[w]
    BY <1>1, <2>1, <2>2 DEF Calls, NoDisk, Nobody
  <2> QED
    BY <1>3, <2>1, <2>3
<1>9. ASSUME NEW v \in Volumes, EC2Settles(v) \/ ForcedDetach(v) PROVE InProgressIsListed'
  BY <1>9 DEF EC2Settles, ForcedDetach
<1>10. CASE DiskRestart
  BY <1>10 DEF DiskRestart, NoDisk, Nobody
<1>11. CASE UNCHANGED diskVars
  BY <1>11 DEF diskVars
<1>12. ASSUME NEW n \in Nodes, InstanceStopsOrStarts(n) PROVE InProgressIsListed'
  BY <1>12 DEF InstanceStopsOrStarts
<1> QED
  BY <1>4, <1>5, <1>6, <1>7, <1>8, <1>9, <1>10, <1>11, <1>12 DEF DiskNext

(***************************************************************************)
(* Whatever ends, fails or times out meanwhile, an attach under way keeps  *)
(* its entry in the map of the attachments in progress (getMountDevice,    *)
(* endAttaching).                                                          *)
(***************************************************************************)
THEOREM AttachesAreListed == Spec => []InProgressIsListed
<1>1. Init => InProgressIsListed
  BY DEF Init, DiskInit, InProgressIsListed, NoDisk, Nobody
<1>2. [Next]_vars => [DiskNext]_diskVars
  BY DEF Next, Elsewhere, Balancer, vars, diskVars
<1>3. DiskTypeOK /\ InProgressIsListed /\ [Next]_vars => InProgressIsListed'
  BY <1>2, ListedStep
<1> QED
  BY <1>1, <1>3, DiskTypeCorrect, PTL DEF Spec

\* Two attaches under way for one node do not ask for one device.
DevicesDistinct ==
    \A v, w \in Volumes :
        v /= w /\ Attaching(v) /\ Attaching(w) /\ disk[v].node = disk[w].node
          => disk[v].device /= disk[w].device

(***************************************************************************)
(* AttachDisk asks EC2 for no device name that another call, for the same  *)
(* node, is using: the purpose of the map and of attachingMutex.           *)
(***************************************************************************)
THEOREM DevicesAreDistinct == Spec => []DevicesDistinct
<1>1. InProgressIsListed => DevicesDistinct
  BY DEF InProgressIsListed, DevicesDistinct, Attaching
<1> QED
  BY <1>1, AttachesAreListed, PTL

-----------------------------------------------------------------------------
LEMMA GoneStep ==
    ASSUME DiskTypeOK, [DiskNext]_diskVars,
           \A v \in Volumes : attachment[v].state = "detached" => attachment[v] = Detached
    PROVE  (\A v \in Volumes : attachment[v].state = "detached" => attachment[v] = Detached)'
<1>1. attachment \in [Volumes -> Places]
  BY DEF DiskTypeOK
<1>2. ASSUME NEW v \in Volumes, NEW place, attachment' = [attachment EXCEPT ![v] = place],
             place.state /= "detached" \/ place = Detached
      PROVE  (\A w \in Volumes : attachment[w].state = "detached" => attachment[w] = Detached)'
  BY <1>1, <1>2
<1>3. ASSUME NEW v \in Volumes, AttachVolume(v) PROVE
          \/ UNCHANGED attachment
          \/ attachment' = [attachment EXCEPT ![v] = [node |-> disk[v].node, device |-> disk[v].device,
                                                     state |-> "attaching"]]
  BY <1>3 DEF AttachVolume
<1>4. ASSUME NEW v \in Volumes, DetachVolume(v) PROVE
          UNCHANGED attachment \/ attachment' = [attachment EXCEPT ![v].state = "detaching"]
  BY <1>4 DEF DetachVolume
<1>5. ASSUME NEW v \in Volumes, EC2Settles(v) \/ ForcedDetach(v) PROVE
          \/ attachment' = [attachment EXCEPT ![v].state = "attached"]
          \/ attachment' = [attachment EXCEPT ![v] = Detached]
  BY <1>5 DEF EC2Settles, ForcedDetach
<1>6. \/ UNCHANGED attachment
      \/ \E v \in Volumes :
           \/ attachment' = [attachment EXCEPT ![v] = [node |-> disk[v].node, device |-> disk[v].device,
                                                      state |-> "attaching"]]
           \/ attachment' = [attachment EXCEPT ![v].state = "detaching"]
           \/ attachment' = [attachment EXCEPT ![v].state = "attached"]
           \/ attachment' = [attachment EXCEPT ![v] = Detached]
  <2>1. CASE UNCHANGED diskVars
    BY <2>1 DEF diskVars
  <2>2. CASE DiskRestart
    BY <2>2 DEF DiskRestart
  <2>3. ASSUME NEW v \in Volumes,
               \/ \E n \in Reach[v] : AttachDisk(v, n) \/ DetachDisk(v, n)
               \/ getMountDevice(v) \/ WaitAttached(v) \/ WaitDetached(v)
        PROVE  UNCHANGED attachment
    BY <2>3 DEF AttachDisk, DetachDisk, StartDisk, getMountDevice, WaitAttached, WaitDetached
  <2>4. ASSUME NEW n \in Nodes, InstanceStopsOrStarts(n) PROVE UNCHANGED attachment
    BY <2>4 DEF InstanceStopsOrStarts
  <2> QED
    BY <1>3, <1>4, <1>5, <2>1, <2>2, <2>3, <2>4 DEF DiskNext
<1>7. ASSUME NEW v \in Volumes, NEW st \in {"detaching", "attached"},
             attachment' = [attachment EXCEPT ![v].state = st]
      PROVE  (\A w \in Volumes : attachment[w].state = "detached" => attachment[w] = Detached)'
  <2>1. [attachment[v] EXCEPT !.state = st].state /= "detached"
    BY <1>1 DEF Places
  <2>2. attachment' = [attachment EXCEPT ![v] = [attachment[v] EXCEPT !.state = st]]
    BY <1>1, <1>7
  <2> QED
    BY <1>2, <2>1, <2>2
<1>8. ASSUME NEW v \in Volumes,
             attachment' = [attachment EXCEPT ![v] = [node |-> disk[v].node, device |-> disk[v].device,
                                                    state |-> "attaching"]]
      PROVE  (\A w \in Volumes : attachment[w].state = "detached" => attachment[w] = Detached)'
  BY <1>2, <1>8
<1> QED
  BY <1>2, <1>6, <1>7, <1>8

\* A step that answers is one that waited, or found no running instance.
LEMMA AnswersWaited ==
    ASSUME [DiskNext]_diskVars, answer' /= answer, answer' /= NoAnswer
    PROVE  \E v \in Volumes : \/ WaitAttached(v) \/ WaitDetached(v)
                              \/ \E n : DetachUnseen(v, n)
<1>1. ASSUME NEW v \in Volumes, NEW n \in Reach[v], AttachDisk(v, n) \/ DetachDisk(v, n)
      PROVE  DetachUnseen(v, n)
  BY <1>1, DetachUnseen_Rest DEF AttachDisk, StartDisk
<1>2. ASSUME NEW v \in Volumes,
             \/ getMountDevice(v) \/ AttachVolume(v) \/ DetachVolume(v) \/ EC2Settles(v)
             \/ ForcedDetach(v)
      PROVE  FALSE
  BY <1>2 DEF getMountDevice, AttachVolume, DetachVolume, EC2Settles, ForcedDetach
<1>3. ~DiskRestart /\ ~UNCHANGED diskVars /\ \A n \in Nodes : ~InstanceStopsOrStarts(n)
  BY DEF DiskRestart, diskVars, InstanceStopsOrStarts
<1> QED
  BY <1>1, <1>2, <1>3 DEF DiskNext

(***************************************************************************)
(* AttachDisk answers with a device only if EC2 has the volume attached    *)
(* there, on that node ("Double check the attachment to be 100% sure").    *)
(***************************************************************************)
THEOREM AttachAnswersAreTrue == Spec => AttachAnswerIsTrue
<1> DEFINE A == (answer' /= answer /\ answer'.op = "attach") =>
                  attachment[answer'.volume] = [node |-> answer'.node, device |-> answer'.device,
                                                state |-> "attached"]
<1>1. DiskTypeOK /\ [Next]_vars => [A]_diskVars
  <2> SUFFICES ASSUME DiskTypeOK, [Next]_vars, answer' /= answer, answer'.op = "attach"
               PROVE  attachment[answer'.volume] = [node |-> answer'.node, device |-> answer'.device,
                                                    state |-> "attached"]
    OBVIOUS
  <2>1. [DiskNext]_diskVars
    BY DEF Next, Elsewhere, Balancer, vars, diskVars
  <2>2. answer' /= NoAnswer
    BY DEF NoAnswer, Nobody
  <2>3. PICK v \in Volumes : WaitAttached(v) \/ WaitDetached(v) \/ \E n : DetachUnseen(v, n)
    BY <2>1, <2>2, AnswersWaited
  <2>4. /\ attachment[v].state = "attached" /\ RightAttachment(v)
        /\ answer' = [op |-> "attach", volume |-> v, node |-> disk[v].node, device |-> disk[v].device]
    BY <2>2, <2>3 DEF WaitAttached, WaitDetached, DetachUnseen, Detaches, NoAnswer
  <2>5. attachment[v] \in Places
    BY DEF DiskTypeOK
  <2> QED
    BY <2>4, <2>5 DEF RightAttachment, Places
<1> QED
  BY <1>1, DiskTypeCorrect, PTL DEF Spec, AttachAnswerIsTrue

(***************************************************************************)
(* DetachDisk succeeds only if the volume is attached nowhere, or, without *)
(* a look at the volume, if its node has no running instance.              *)
(***************************************************************************)
THEOREM DetachAnswersAreTrue == Spec => DetachAnswerIsTrue
<1> DEFINE NoTrace == \A v \in Volumes : attachment[v].state = "detached" => attachment[v] = Detached
           A       == (answer' /= answer /\ answer'.op = "detach") =>
                     attachment[answer'.volume] = Detached \/ answer'.node \notin running
<1>1. Init => NoTrace
  BY DEF Init, DiskInit
<1>2. [Next]_vars => [DiskNext]_diskVars
  BY DEF Next, Elsewhere, Balancer, vars, diskVars
<1>3. DiskTypeOK /\ NoTrace /\ [Next]_vars => NoTrace'
  BY <1>2, GoneStep
<1>4. DiskTypeOK /\ NoTrace /\ [Next]_vars => [A]_diskVars
  <2> SUFFICES ASSUME DiskTypeOK, NoTrace, [Next]_vars, answer' /= answer, answer'.op = "detach"
               PROVE  attachment[answer'.volume] = Detached \/ answer'.node \notin running
    OBVIOUS
  <2>1. answer' /= NoAnswer
    BY DEF NoAnswer, Nobody
  <2>2. PICK v \in Volumes : WaitAttached(v) \/ WaitDetached(v) \/ \E n : DetachUnseen(v, n)
    BY <1>2, <2>1, AnswersWaited
  <2>3. ~WaitAttached(v)
    BY <2>1 DEF WaitAttached
  <2>4. CASE WaitDetached(v)
    <3>1. attachment[v].state = "detached" /\ answer' = Detaches(v, disk[v].node)
      BY <2>1, <2>4 DEF WaitDetached
    <3>2. answer'.volume = v
      BY <3>1 DEF Detaches, NoAnswer
    <3> QED
      BY <3>1, <3>2
  <2>5. CASE \E n : DetachUnseen(v, n)
    <3>1. PICK n : n \notin running /\ answer' = Detaches(v, n)
      BY <2>5 DEF DetachUnseen
    <3>2. answer'.node = n
      BY <3>1 DEF Detaches, NoAnswer
    <3> QED
      BY <3>1, <3>2
  <2> QED
    BY <2>2, <2>3, <2>4, <2>5
<1> HIDE DEF NoTrace
<1> QED
  BY <1>1, <1>3, <1>4, DiskTypeCorrect, PTL DEF Spec, DetachAnswerIsTrue

-----------------------------------------------------------------------------
(***************************************************************************)
(* The types of the whole: each provider's from its invariant              *)
(***************************************************************************)
LEMMA ServiceTypes ==
    ASSUME want.nodes \subseteq BalancerNodes, synced.by \in Ops \cup {"none"},
           synced.ensured => synced.by # "delete",
           call = NoCall \/ (call.op \in Ops /\ call.steps # <<>>)
    PROVE  ServiceTypeOK
<1>1. CASE call = NoCall
  <2>1. call.op = "none" /\ call.steps = <<>>
    BY <1>1 DEF NoCall
  <2> QED BY <2>1 DEF ServiceTypeOK, Idle, Ops
<1>2. CASE call.op \in Ops /\ call.steps # <<>>
  BY <1>2 DEF ServiceTypeOK, Idle, Ops
<1> QED BY <1>1, <1>2

LEMMA AWSTyped == ASSUME AWSInv PROVE ServiceTypeOK /\ AWSTypeOK
<1>1. /\ want \in [present : BOOLEAN, spec : Shapes, nodes : SUBSET BalancerNodes]
      /\ cloud \in AWSClouds /\ synced \in Answers /\ (synced.ensured => synced.by # "delete")
  BY DEF AWSInv, AWSTypes
<1>2. call = NoCall \/ (call.op \in Ops /\ call.steps # <<>>)
  <2> SUFFICES ASSUME call # NoCall PROVE call.op \in Ops /\ call.steps # <<>>
    OBVIOUS
  <2>1. call \in AWSCalls /\ Len(call.steps) \in 1 .. NumberOf(call.op)
    BY DEF AWSInv, Runs, InOrder
  <2>2. call.op \in Ops /\ NumberOf(call.op) \in Nat
    BY <2>1 DEF AWSCalls, NumberOf
  <2>3. Len(call.steps) # 0 /\ Len(<<>>) = 0
    BY <2>1, <2>2
  <2> QED BY <2>2, <2>3
<1>3. cloud.lb \in LBs /\ cloud.open \subseteq SecurityGroups
  BY <1>1 DEF AWSClouds
<1>4. ServiceTypeOK
  BY <1>1, <1>2, ServiceTypes DEF Answers
<1> QED BY <1>1, <1>3, <1>4 DEF AWSTypeOK, Answers, LBs, AWSInv, Instances

LEMMA GCETyped == ASSUME GCEInv PROVE ServiceTypeOK /\ GCETypeOK
<1>1. /\ want \in [present : BOOLEAN, spec : GCEShapes, nodes : SUBSET BalancerNodes]
      /\ cloud \in GCEClouds /\ synced \in GCEAnswers /\ (synced.ensured => synced.by # "delete")
  BY DEF GCEInv, GCETypes, Sound
<1>2. call = NoCall \/ (call.op \in Ops /\ call.steps # <<>>)
  <2> SUFFICES ASSUME call # NoCall PROVE call.op \in Ops /\ call.steps # <<>>
    OBVIOUS
  <2>1. call \in GCECalls /\ GCEDone(call, cloud)
    BY DEF GCEInv, GCERuns
  <2>2. call.op \in Ops
    BY <2>1 DEF GCECalls, GCEOps, Ops
  <2>3. call.op = "ensure" => call.steps # <<>>
    BY <2>1 DEF GCEDone, GCEEnsureDone
  <2>4. call.op = "update" => call.steps # <<>>
    <3>1. /\ <<"get_pool", "add", "remove", "verify">> # <<>> /\ <<"add", "remove", "verify">> # <<>>
          /\ <<"remove", "verify">> # <<>> /\ <<"verify">> # <<>>
      OBVIOUS
    <3>2. call.op = "update" => GCEUpdateDone(call, cloud)
      BY <2>1 DEF GCEDone
    <3> QED BY <3>1, <3>2 DEF GCEUpdateDone, GCEUpdateSteps
  <2>5. call.op = "delete" => call.steps # <<>>
    <3>1. <<"check?", "tear_down">> # <<>> /\ <<"tear_down">> # <<>>
      OBVIOUS
    <3>2. call.op = "delete" => GCEDeleteDone(call, cloud)
      BY <2>1 DEF GCEDone
    <3> QED BY <3>1, <3>2 DEF GCEDeleteDone, GCEDeleteSteps
  <2> QED BY <2>2, <2>3, <2>4, <2>5 DEF Ops
<1>3. cloud.address \in IPs \cup {"none"} /\ cloud.rule \in Rules /\ cloud.pool \in Pools
  BY <1>1 DEF GCEClouds
<1>4. cloud.rule.ip \in IPs \cup UserIPs \cup {"none"} /\ cloud.pool.instances \subseteq BalancerNodes
  BY <1>3 DEF Rules, Pools, Addresses
<1>5. ServiceTypeOK
  BY <1>1, <1>2, ServiceTypes DEF GCEAnswers, GCEOps, Ops
<1> QED BY <1>1, <1>3, <1>4, <1>5 DEF GCETypeOK, GCEAnswers

LEMMA OpenStackTyped == ASSUME OSInv PROVE ServiceTypeOK /\ OpenStackTypeOK
<1>1. /\ want \in [present : BOOLEAN, spec : OSShapes, nodes : SUBSET BalancerNodes]
      /\ cloud \in OSClouds /\ synced \in OSAnswers /\ (synced.ensured => synced.by # "delete")
  BY DEF OSInv, OSTypes, OSAgreed
<1>2. call = NoCall \/ (call.op \in Ops /\ call.steps # <<>>)
  BY DEF OSInv, OSTypes, OSCalls, OSOps, Ops
<1>3. /\ cloud.listeners \subseteq PortNumbers
      /\ \A p \in PortNumbers : cloud.pools[p].members \subseteq BalancerNodes \X NodePorts
  BY <1>1 DEF OSClouds, OSPools, Members
<1>4. ServiceTypeOK
  BY <1>1, <1>2, ServiceTypes DEF OSAnswers, OSOps, Ops
<1> QED BY <1>1, <1>3, <1>4 DEF OpenStackTypeOK, OSAnswers

\* A cluster runs on one of the three clouds, always the same.
OneCloud == provider \in {"aws", "gce", "openstack"}

LEMMA ProviderKept == Init => OneCloud
  BY DEF Init, AWSInit, GCEInit, OpenStackInit, ServiceInit, OneCloud

LEMMA ProviderStays == OneCloud /\ [Next]_vars => OneCloud'
<1> SUFFICES ASSUME OneCloud, [Next]_vars PROVE provider' = provider
  BY DEF OneCloud
<1>1. CASE UNCHANGED balancerVars
  BY <1>1 DEF balancerVars
<1>2. CASE Balancer(AWSNext) \/ Elsewhere(GCENext) \/ Elsewhere(OpenStackNext)
  BY <1>2 DEF Elsewhere, Balancer, AWSNext, AWSWork, NodeStopsOrStarts, GCENext, GCEWork,
              OpenStackNext, OpenStackWork, Change
<1> QED BY <1>1, <1>2 DEF Next, vars, balancerVars

(***************************************************************************)
(* The resources of every provider, what the service controller remembers  *)
(* of them, and the steps left to a call keep their types: a call is idle  *)
(* exactly when it has no step left, and no success of a deletion counts   *)
(* as a load balancer that is there.                                       *)
(***************************************************************************)
THEOREM TypesCorrect == Spec => []TypeOK
<1>1. Inv /\ GCEHolds /\ OSHolds /\ OneCloud /\ DiskTypeOK => TypeOK
  BY AWSTyped, GCETyped, OpenStackTyped DEF Inv, GCEHolds, OSHolds, OneCloud, TypeOK
<1>2. Spec => []OneCloud
  BY ProviderKept, ProviderStays, PTL DEF Spec
<1> QED BY <1>1, <1>2, BalancerInvariant, GCEInvariant, OpenStackInvariant, DiskTypeCorrect, PTL

=============================================================================
