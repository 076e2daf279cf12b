----------------------------- MODULE AWSVolumes -----------------------------
(***************************************************************************)
(* snapshot/pkg/cloudprovider/providers/aws: AttachDisk and DetachDisk.    *)
(* The calls of several volumes for one node run side by side.  They read  *)
(* the instance, then, under a mutex, join what they read with the map of  *)
(* the attachments in progress and pick a device name, then ask EC2 and    *)
(* wait.  One call at a time runs for a volume.                            *)
(***************************************************************************)
EXTENDS Naturals

CONSTANTS
    Volumes, Nodes,
    Reach,           \* the nodes each volume is asked for
    NDevices,        \* device names on a node; ba..cz, 52, in the code
    MaxDiskFaults    \* bound on failed calls, forced detachments, stops and restarts

ASSUME DevicesAssumption ==
    /\ NDevices \in Nat \ {0} /\ MaxDiskFaults \in Nat
    /\ "none" \notin Volumes \cup Nodes
    /\ Reach \in [Volumes -> SUBSET Nodes]

VARIABLES
    attachment,    \* EC2: where each volume is, and how far
    attaching,     \* c.attaching: the volume in progress for a device of a node
    lastIndex,     \* deviceAllocator.lastIndex of each node
    running,       \* EC2: the nodes whose instance is running
    disk,          \* the call that runs for each volume
    answer,        \* what a call answered in the last step, if it succeeded
    diskFaults

diskVars == <<attachment, attaching, lastIndex, running, disk, answer, diskFaults>>

Devices == 0 .. NDevices - 1
Nobody  == "none"

Nothing  == [d \in Devices |-> Nobody]
Detached == [node |-> Nobody, device |-> NDevices, state |-> "detached"]
NoDisk   == [op |-> Nobody, at |-> Nobody, node |-> Nobody, device |-> NDevices,
             already |-> FALSE, seen |-> Nothing]
NoAnswer == [op |-> Nobody, volume |-> Nobody, node |-> Nobody, device |-> NDevices]

Places == [node : Nodes \cup {Nobody}, device : 0 .. NDevices,
           state : {"detached", "attaching", "attached", "detaching"}]

Calls == [op : {Nobody, "attach", "detach"}, at : {Nobody, "device", "request", "wait"},
          node : Nodes \cup {Nobody}, device : 0 .. NDevices, already : BOOLEAN,
          seen : [Devices -> Volumes \cup {Nobody}]]

CallOK(c) ==
    /\ c \in Calls
    /\ c.op = Nobody <=> c.at = Nobody
    /\ c.op /= Nobody => c.node \in Nodes
    /\ c.op = "attach" /\ c.at /= "device" => c.device \in Devices

DiskTypeOK ==
    /\ attachment \in [Volumes -> Places]
    /\ attaching \in [Nodes -> [Devices -> Volumes \cup {Nobody}]]
    /\ lastIndex \in [Nodes -> Devices]
    /\ running \subseteq Nodes
    /\ disk \in [Volumes -> Calls]
    /\ \A v \in Volumes : CallOK(disk[v])

DiskInit ==
    /\ attachment = [v \in Volumes |-> Detached]
    /\ attaching = [n \in Nodes |-> [d \in Devices |-> Nobody]]
    /\ lastIndex = [n \in Nodes |-> 0]
    /\ running = Nodes
    /\ disk = [v \in Volumes |-> NoDisk]
    /\ answer = NoAnswer
    /\ diskFaults = 0

DiskFault == diskFaults < MaxDiskFaults /\ diskFaults' = diskFaults + 1

-----------------------------------------------------------------------------
\* The block devices of an instance, as EC2 tells them
describeInstance(n) ==
    [d \in Devices |->
        IF \E v \in Volumes : attachment[v].node = n /\ attachment[v].device = d
          THEN CHOOSE v \in Volumes : attachment[v].node = n /\ attachment[v].device = d
          ELSE Nobody]

StartDisk(v, n, op) ==
    /\ disk[v] = NoDisk
    /\ disk' = [disk EXCEPT ![v] = [NoDisk EXCEPT !.op = op, !.at = "device", !.node = n,
                                                  !.seen = describeInstance(n)]]
    /\ answer' = NoAnswer
    /\ UNCHANGED <<attachment, attaching, lastIndex, running, diskFaults>>

\* getFullInstance finds running instances only; without one AttachDisk fails.
AttachDisk(v, n) == n \in running /\ StartDisk(v, n, "attach")

Detaches(v, n) == [NoAnswer EXCEPT !.op = "detach", !.volume = v, !.node = n]

\* "If instance no longer exists, safe to assume volume is not attached."
DetachDisk(v, n) ==
    \/ n \in running /\ StartDisk(v, n, "detach")
    \/ /\ n \notin running /\ disk[v] = NoDisk
       /\ answer' = Detaches(v, n)
       /\ UNCHANGED <<attachment, attaching, lastIndex, running, disk, diskFaults>>

\* The attachments in progress go before what EC2 told earlier.
deviceMappings(v) ==
    [d \in Devices |-> IF attaching[disk[v].node][d] /= Nobody THEN attaching[disk[v].node][d]
                                                              ELSE disk[v].seen[d]]

\* The devices on the ring after the last one given, in order; that one is last.
Ring(last) == [k \in 1 .. NDevices |-> (last + k) % NDevices]

\* The first of them that is not in the mappings
GetNext(last, mappings) ==
    LET free  == {k \in 1 .. NDevices : mappings[Ring(last)[k]] = Nobody}
        first == {k \in free : \A j \in free : k <= j}
    IN  IF first = {} THEN NDevices ELSE Ring(last)[CHOOSE k \in first : TRUE]

\* Variant: the error of the allocator is not looked at.
NoDevices_Ignored(d) == FALSE

\* "no devices are available"
NoDevices(d) == d = NDevices

DiskReturns(v) == disk' = [disk EXCEPT ![v] = NoDisk]

(***************************************************************************)
(* Under attachingMutex: the device the volume has, or the next one.  If   *)
(* all are taken the call ends with an error.  Detach assigns none.        *)
(***************************************************************************)
getMountDevice(v) ==
    LET n        == disk[v].node
        mappings == deviceMappings(v)
        mine     == {d \in Devices : mappings[d] = v}
        next     == GetNext(lastIndex[n], mappings)
    IN
    /\ disk[v].at = "device"
    /\ UNCHANGED <<attachment, running, diskFaults>> /\ answer' = NoAnswer
    /\ \/ \E d \in mine :
            /\ disk' = [disk EXCEPT ![v].device = d, ![v].already = TRUE, ![v].seen = Nothing,
                                    ![v].at = IF disk[v].op = "attach" THEN "wait" ELSE "request"]
            /\ UNCHANGED <<attaching, lastIndex>>
       \/ /\ mine = {} /\ disk[v].op = "detach"
          /\ disk' = [disk EXCEPT ![v].at = "request", ![v].seen = Nothing]
          /\ UNCHANGED <<attaching, lastIndex>>
       \/ /\ mine = {} /\ disk[v].op = "attach"
          /\ IF NoDevices(next)
               THEN DiskReturns(v) /\ UNCHANGED <<attaching, lastIndex>>
               ELSE /\ disk' = [disk EXCEPT ![v].device = next, ![v].at = "request",
                                         ![v].seen = Nothing]
                    /\ attaching' = [attaching EXCEPT ![n][next] = v]
                    /\ lastIndex' = [lastIndex EXCEPT ![n] = next]

\* Variant: the entry is removed whatever volume it names.
endAttaching_Any(v) ==
    attaching' = IF disk[v].device = NDevices THEN attaching
                 ELSE [attaching EXCEPT ![disk[v].node][disk[v].device] = Nobody]

\* The entry of the device is removed if it still names the volume.
endAttaching(v) ==
    attaching' = [attaching EXCEPT ![disk[v].node] =
                     [d \in Devices |-> IF d = disk[v].device /\ @[d] = v THEN Nobody ELSE @[d]]]

-----------------------------------------------------------------------------
\* EC2 takes a device name that is free, for a volume that is nowhere.
EC2Accepts(v) ==
    attachment[v] = Detached /\ describeInstance(disk[v].node)[disk[v].device] = Nobody

AttachVolume(v) ==
    /\ disk[v].at = "request" /\ disk[v].op = "attach"
    /\ LET asked == [attachment EXCEPT ![v] = [node |-> disk[v].node, device |-> disk[v].device,
                                               state |-> "attaching"]]
       IN  \/ /\ EC2Accepts(v)
              /\ attachment' = asked
              /\ disk' = [disk EXCEPT ![v].at = "wait"]
              /\ UNCHANGED <<attaching, diskFaults>>
           \/ /\ IF EC2Accepts(v) THEN DiskFault /\ attachment' \in {attachment, asked}
                                  ELSE UNCHANGED <<attachment, diskFaults>>
              /\ endAttaching(v) /\ DiskReturns(v)
    /\ UNCHANGED <<lastIndex, running>> /\ answer' = NoAnswer

\* Variant: the attachment that was found is not compared.
RightAttachment_Any(v) == TRUE

\* "Double check the attachment to be 100% sure"
RightAttachment(v) ==
    attachment[v].device = disk[v].device /\ attachment[v].node = disk[v].node

(***************************************************************************)
(* waitForAttachmentStatus gives up when its steps are used up; the entry  *)
(* in the map then stays.                                                  *)
(***************************************************************************)
WaitAttached(v) ==
    /\ disk[v].at = "wait" /\ disk[v].op = "attach"
    /\ \/ /\ attachment[v].state = "attached"
          /\ endAttaching(v)
          /\ IF RightAttachment(v)
               THEN answer' = [op |-> "attach", volume |-> v, node |-> disk[v].node,
                          device |-> disk[v].device]
               ELSE answer' = NoAnswer
       \/ /\ attachment[v].state /= "attached"
          /\ UNCHANGED attaching /\ answer' = NoAnswer
    /\ DiskReturns(v)
    /\ UNCHANGED <<attachment, lastIndex, running, diskFaults>>

DetachVolume(v) ==
    /\ disk[v].at = "request" /\ disk[v].op = "detach"
    /\ LET asked == [attachment EXCEPT ![v].state = "detaching"]
           fits  == attachment[v].node = disk[v].node /\ attachment[v].state /= "detaching"
       IN  \/ /\ fits
              /\ attachment' = asked
              /\ disk' = [disk EXCEPT ![v].at = "wait"]
              /\ UNCHANGED diskFaults
           \/ /\ IF fits THEN DiskFault /\ attachment' \in {attachment, asked}
                         ELSE UNCHANGED <<attachment, diskFaults>>
              /\ DiskReturns(v)
    /\ UNCHANGED <<attaching, lastIndex, running>> /\ answer' = NoAnswer

\* Variant: Detach does not wait.
WaitDetached_No(v) ==
    /\ disk[v].at = "wait" /\ disk[v].op = "detach"
    /\ endAttaching(v)
    /\ answer' = Detaches(v, disk[v].node)
    /\ DiskReturns(v)
    /\ UNCHANGED <<attachment, lastIndex, running, diskFaults>>

WaitDetached(v) ==
    /\ disk[v].at = "wait" /\ disk[v].op = "detach"
    /\ \/ /\ attachment[v].state = "detached"
          /\ endAttaching(v)
          /\ answer' = Detaches(v, disk[v].node)
       \/ /\ attachment[v].state /= "detached"
          /\ UNCHANGED attaching /\ answer' = NoAnswer
    /\ DiskReturns(v)
    /\ UNCHANGED <<attachment, lastIndex, running, diskFaults>>

-----------------------------------------------------------------------------
\* EC2 goes on by itself.
EC2Settles(v) ==
    /\ \/ /\ attachment[v].state = "attaching"
          /\ attachment' = [attachment EXCEPT ![v].state = "attached"]
       \/ /\ attachment[v].state = "detaching"
          /\ attachment' = [attachment EXCEPT ![v] = Detached]
    /\ UNCHANGED <<attaching, lastIndex, running, disk, diskFaults>> /\ answer' = NoAnswer

\* Somebody else detaches the volume.
ForcedDetach(v) ==
    /\ attachment[v] /= Detached /\ DiskFault
    /\ attachment' = [attachment EXCEPT ![v] = Detached]
    /\ UNCHANGED <<attaching, lastIndex, running, disk>> /\ answer' = NoAnswer

\* The maps and the calls are lost.
DiskRestart ==
    /\ DiskFault
    /\ attaching' = [n \in Nodes |-> [d \in Devices |-> Nobody]]
    /\ lastIndex' = [n \in Nodes |-> 0]
    /\ disk' = [v \in Volumes |-> NoDisk]
    /\ answer' = NoAnswer
    /\ UNCHANGED <<attachment, running>>

\* A node's instance is stopped, its volumes stay attached; it is started again.
InstanceStopsOrStarts(n) ==
    /\ \/ n \in running /\ running' = running \ {n} /\ DiskFault
       \/ n \notin running /\ running' = running \cup {n} /\ UNCHANGED diskFaults
    /\ answer' = NoAnswer
    /\ UNCHANGED <<attachment, attaching, lastIndex, disk>>

DiskNext ==
    \/ \E v \in Volumes : \E n \in Reach[v] : AttachDisk(v, n) \/ DetachDisk(v, n)
    \/ \E v \in Volumes :
         \/ getMountDevice(v) \/ AttachVolume(v) \/ WaitAttached(v)
         \/ DetachVolume(v) \/ WaitDetached(v) \/ EC2Settles(v) \/ ForcedDetach(v)
    \/ \E n \in Nodes : InstanceStopsOrStarts(n)
    \/ DiskRestart

-----------------------------------------------------------------------------
(***************************************************************************)
(* An attach under way that asked for its device, or is about to, is in    *)
(* the map until it ends, though other calls end meanwhile for the same    *)
(* device: nobody else is given the device.                                *)
(***************************************************************************)
InProgressIsListed ==
    \A v \in Volumes :
        (disk[v].op = "attach" /\ disk[v].at \in {"request", "wait"} /\ ~disk[v].already)
          => attaching[disk[v].node][disk[v].device] = v

(***************************************************************************)
(* AttachDisk answers with a device only when EC2 has the volume attached  *)
(* there, on that node: leftovers in the map do not make it believe so.    *)
(***************************************************************************)
AttachAnswerIsTrue ==
    [][(answer' /= answer /\ answer'.op = "attach") =>
         attachment[answer'.volume] = [node |-> answer'.node, device |-> answer'.device,
                                       state |-> "attached"]]_diskVars

(***************************************************************************)
(* DetachDisk succeeds only when the volume is attached nowhere, or the    *)
(* node it was asked for has no running instance: then it has looked at    *)
(* nothing.                                                                *)
(***************************************************************************)
DetachAnswerIsTrue ==
    [][(answer' /= answer /\ answer'.op = "detach") =>
         attachment[answer'.volume] = Detached \/ answer'.node \notin running]_diskVars
=============================================================================
