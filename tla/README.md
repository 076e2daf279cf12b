# A TLA+ development of the storage provisioners of hyy-monitor

The program logic of this repository is a copy of the Kubernetes incubator
project *external-storage* under `src/ceph/ceph/external-storage` (below: `ES/`);
the rest is manifests, dashboards and shell scripts. Each subdirectory of `ES/`
is a Kubernetes controller of its own: it watches claims, volumes or snapshots
in the API server and makes disks, exports, images or bricks follow. They share
no state with each other.

Five groups of modules cover them: the **local volume provisioner**, whose
mistakes erase data; the **NFS provisioner**, which has the most state of its
own; the **snapshot controller** with its volume plugins; the **provisioners of
claims** for Ceph, Gluster and restored snapshots, which are sequences of
commands with partial rollbacks; and the **cloud providers** that the snapshot
controller brings along: the volumes of AWS and the load balancers of AWS, GCE
and OpenStack.

1. [Inventory](#1-inventory)
2. [Local volume provisioner](#2-local-volume-provisioner)
3. [NFS provisioner](#3-nfs-provisioner)
4. [Snapshot controller](#4-snapshot-controller)
5. [Provisioners of claims](#5-provisioners-of-claims)
6. [Cloud providers](#6-cloud-providers)
7. [Runs](#7-runs)
8. [Proofs](#8-proofs)
9. [Where the code departs from what it says](#9-where-the-code-departs-from-what-it-says)
10. [What is not modelled](#10-what-is-not-modelled)
11. [Plan](#11-plan)

To check a run, `tlc -config Prompt.cfg MCLocalProvisioner`; to check the proofs
of a module, `tlapm LocalProofs.tla`.

## 1. Inventory

### Local volume provisioner (`ES/local-volume/provisioner`)

One process per node. A main loop deletes what was released, discovers what
turned up, and sleeps for 10 s.

| component | state | operations | hard part |
|---|---|---|---|
| VolumeCache, Populator (`pkg/cache`, `pkg/populator`) | the PVs of this node as last reported | handlers for add, update, delete | reports are late; a deletion may come as a tombstone or not at all |
| cleanup process table (`pkg/deleter/proctable.go`) | name → running, succeeded, failed | mark, query, remove | shared by the main loop and one goroutine per cleanup; lost in a restart |
| Deleter (`pkg/deleter/deleter.go`) | none of its own; cache, table, API server, disks | `DeletePVs`, `deletePV`, `runProcess`, `runJob`, `asyncCleanPV` | decides from a snapshot of a lagging cache; cleaning outlives the pass |
| cleaning jobs (`pkg/deleter/jobcontroller.go`) | the jobs in the API server, and a lister of them | create, query, remove | the lister lags behind the PV cache or runs ahead of it; jobs outlive restarts |
| Discoverer (`pkg/discovery`) | none of its own | `DiscoverLocalVolumes`, `createPV` | must not publish a volume that is being cleaned |
| main loop, start-up (`pkg/controller`, `cmd`) | – | runs the above in turn | restarts at any point |

They interact through the cache (written by the informer, read by Deleter and
Discoverer), the table (written by Deleter and its goroutines, read by both),
the API server and the disks. The component is correct when it never erases
data in use or to be kept, never publishes a volume that holds old data, acts on
a cleanup of this life of the PV only, and when what is released comes back.

### NFS provisioner (`ES/nfs`)

| component | state | operations | hard part |
|---|---|---|---|
| ID maps and block files (`pkg/volume/util.go`) | used 16-bit IDs; a file with a block for each | `generateID`, `deleteID`, `addToFile`, `removeFromFile`, `getExistingIDs` | map and file change at different times under different mutexes; the file is rewritten in place, and a write that fails loses it |
| exporter (`export.go`) | the map of export IDs, the server's exports | `AddExportBlock`, `RemoveExportBlock`, `Export`, `Unexport`, `CanExport` | an ID is free before its export is gone |
| quotaer (`quota.go`) | the map of project IDs, the limits of the file system | `AddProject`, `RemoveProject`, `SetQuota`, `restoreQuotas` | limits outlive their project |
| provisioner (`provision.go`, `delete.go`) | directories, annotations of PVs | `Provision`, `Delete` | called for several volumes at once, and again after a failure; every step may fail |
| server and command (`pkg/server`, `cmd`) | ganesha and its configuration | start, run again after an exit | the server reads whatever the file holds at that moment |

It is correct when two volumes never share an ID, and when a PV keeps its
directory, export and limit whatever happens to other volumes.

### Snapshot controller (`ES/snapshot/pkg/controller`, `pkg/volume`)

| component | state | operations | hard part |
|---|---|---|---|
| informer, desired and actual state of the world | two maps of VolumeSnapshots by name and UID, the informer's store | handlers for add, update, delete | filled at different times by different threads; each is a little wrong at times |
| populator | what it listed | find and remove deleted, find and add active | reads a list, then acts on it |
| reconciler | – | starts operations for what is in one world only | believes the worlds |
| snapshotter | running operations by name; objects VolumeSnapshot and VolumeSnapshotData | create, delete, (promote, which is empty) | several API calls, any of which may fail or be cut off by a restart; create and delete of one snapshot run at the same time |
| volume plugins | the snapshots in five storage systems | create, delete, describe, find, restore | snapshots take time; answers are lost; errors are dropped |

Correct when a VolumeSnapshot that is bound keeps its snapshot on disk, when one
that stays becomes ready in the end and one that is deleted takes its disk along.

### Provisioners of claims (`ES/ceph`, `ES/gluster`, `ES/snapshot/cmd/snapshot-pv-provisioner`)

Each implements `Provision` and `Delete`, which a library calls for several claims at
once and again after an error. State is in the storage system (images, shares,
users, bricks, disks) and in API objects (PVs, Secrets, Services); the gluster file and
glusterfs provisioners keep a table of GIDs, the former also its last call's options.
A call is a sequence of commands, each of which may fail, or be done and its answer
lost. Hard: every prefix of the sequence may be all that happened; names are random
or are reused; some errors are ignored. Correct when a bound claim can be mounted,
when nothing that a PV names outlives the PV, when claims are served and released
PVs removed in the end.

### Cloud providers (`ES/snapshot/pkg/cloudprovider`)

A copy of Kubernetes' providers; the snapshot plugins use their snapshots and disks.

| component | state | operations | hard part |
|---|---|---|---|
| AWS volumes (`aws.go`, `device_allocator.go`) | attachments in progress by node and device, ring of device names | `AttachDisk`, `DetachDisk` | calls for several volumes side by side; EC2 goes on after a timeout; a stopped instance looks like none |
| load balancers of AWS, GCE, OpenStack | none in the process but AWS's last list of instances; all in the cloud: balancers, listeners, pools, rules, groups, addresses | `EnsureLoadBalancer`, `UpdateLoadBalancer`, `EnsureLoadBalancerDeleted` | ten to thirty requests each; a failed call is repeated and meets what the last one left |
| snapshots and disks | in the cloud | create, delete, describe | modelled with the plugins |

Correct when no two attachments use one device and answers are true; when a call
that succeeds leaves the load balancer exactly as the Service says, whatever
failed before; when a deleted Service leaves nothing behind.

### Everything else

Manifests, Helm charts, dashboards, shell scripts, metrics, generated clients
(`PROJECT.json`, status `not_modelled`).

## 2. Local volume provisioner

Each module is one component; a module that EXTENDS another sees its state, as
the Go packages do through pointers.

| module | stands for | main correspondences |
|---|---|---|
| `LocalVolumes` | disks, classes, modes | `dirty`: data of a claim on the disk; `media`: mounted, or only the directory below it |
| `PVInformer` | API server's PVs, watch, Populator, VolumeCache | `apiPV`, `pvEvents` (reports under way, in order), `pvCache`; `Populate` handles one report |
| `ProcTable` | `proctable.go` | `procTable[v]` |
| `CleanupJobs` | jobs, their watch and lister | `apiJob`, `jobEvents`, `jobCache`; a deleted job is `"terminating"` until collected |
| `Deleter` | `deleter.go`, `RemoveJob` | `todo`: what is left of the snapshot of `DeletePVs`; `cur`, `pc`: the API call under way; `cleaner`: the goroutine |
| `Discoverer` | `discovery.go` | `classes`, `files`: what is left to visit; `mounts`: the mount list, read once per class |
| `LocalProvisioner` | `controller.go`, composition | `MainLoop`, `Goroutines`, `Cluster`, `Faults` |
| `VolumeLifecycle` | what users are promised | a PV is published on a clean disk, claimed, released, erased, withdrawn |

**Atomicity.** One action of the main loop is the code between two API calls:
`deletePV` for one entry up to its call, then the call (`DeletePVSent`,
`CallError`), then the next entry. Everything else may happen in between. The
table's methods hold a mutex and are single steps. The goroutine cleans and then
enters its outcome, in two steps.

**Calls.** A call succeeds, fails without effect, or takes effect although its
answer is lost (`DeleteJobLost`).

**Reports** are queued per object, at most `MaxEvents` at a time: a queue that is
full delays the next change of the object. With `PromptReports = FALSE` they are
handled whenever the scheduler likes. With `TRUE` a pass starts only when all
have arrived and deleted jobs are gone: it says that the sleep of 10 s is long
enough. Reports that come during a pass are arbitrary in both settings. Safety
of data in use does not depend on it; that the disk of a PV about to be deleted
is clean does (§9).

**Environment.** Claims bind and release PVs; an administrator sets the policy of
an unreleased PV (`PatchTo`), deletes unused PVs or jobs, unmounts disks; jobs
succeed, fail, are collected. Faults are counted against `MaxFaults`.

**Fairness** (`FairSpec`). Weak fairness for the main loop, for the delivery of
reports and for the goroutines, which are threads of one process and are
scheduled. Strong fairness for the success of an API call, of a cleanup, of
reading a directory and of creating a PV: each is tried in every pass, and what
is tried without end succeeds in the end. Nothing is assumed about claims,
administrators or faults. Weak fairness of `JobGone` is the garbage collector's
work.

**Properties.**

- `CleansOnlyReleased`: nothing works on the data of a volume whose PV is in use
  or to be kept.
- `ActsOnlyOnReleased`: the same for API calls, one step earlier; a stale
  snapshot never leads to a call for a PV that is bound, kept or new.
- `AvailableIsClean`: a PV that can be claimed has no old data.
- `DeletedAfterCleanup`: a PV is deleted on account of a cleanup of this life.
- `TableTracksCleaners`: the table says running exactly while a goroutine is.
- `CacheCatchesUp`: a cache without reports under way agrees with the server.
- `FollowsLifecycle`: refinement of `VolumeLifecycle`.
- `ReleasedIsRecycled`: a released volume becomes available again.

## 3. NFS provisioner

| module | stands for | main correspondences |
|---|---|---|
| `IDFile` | `util.go` | `ids`, `file`, `toWrite` (what `removeFromFile` has still to write back), `hung` (`generateID` looping with the mutex held), `lost` (not in the code: blocks were lost, and whether somebody has read the rest since) |
| `NFSProvisioner` | the rest of `pkg/volume`, and what `pkg/server` and `cmd` do to its state | two instances of `IDFile`; `call[v]`, `at[v]`: the library's call for a volume and its next step |

`IDFile` is instantiated twice, for exports and for projects, as the code uses
the same functions for both. A block is a pair of ID and owner: the text has
more, but `removeFromFile` looks for the whole text, which contains the path.

**Atomicity.** A step is what one mutex protects, or one command or D-Bus call.
`removeFromFile` takes two: `ioutil.WriteFile` truncates the file and then writes
it, and `exportfs -r`, ganesha's `AddExport` or a new process may read it in
between. Calls for different volumes interleave freely; the library makes one
call at a time for a volume.

**Kinds of fault.** A behaviour has one of the sets of `FaultSets`. `"provision"` and `"delete"`:
any step of that call fails. `"rollback"`: so does the undoing, which the code ignores. `"retry"`:
a failed Delete is called again. `"write"`: `WriteFile` has truncated a file and fails to write it
back (no space left, an I/O error); any subset of the blocks is left, the call ends with an error
and the process goes on. `"server"`: ganesha restarts between `RemoveExportBlock` and `Unexport`.
Steps whose failure follows from the state (an ID that ganesha exports already, or not any more)
need no fault. Restarts, which may also fall between truncation and writing back, are bounded by
`MaxRestarts`.

**Lost blocks.** A write that fails or is cut off loses the blocks of volumes that
nobody deletes. Nothing else happens until the file is read again: the maps are in
memory, the exports in the server. `lost` is `"unread"` in that time and `"read"` from
then on. The properties promise the file's blocks while it is `"none"`, IDs, exports and
limits until it is `"read"`: exactly as long as the code keeps them; afterwards they break (§9).

**External.** ganesha refuses `AddExport` for an ID it has and `RemoveExport` for
one it does not have; `exportfs -r` makes the kernel export what the file says.
A start with two blocks of one ID in a file is left out, because it is for
ganesha, or for the order of blocks in `restoreQuotas`, to say whether it fails.

**Properties.** `IDsDistinct`, `LivePVsExported`, `LivePVsLimited`:
see the comments in the module. `HoldsExport` and `HoldsProject` say from which
step to which a volume owns its ID.

Read off the model, without a property of their own: with ganesha and
`max-exports` N only N − 1 volumes are exported, because the default export has
ID 0 and counts; an ID that ganesha refuses is the lowest free one again in the
next call, so that one failed Unexport stops all provisioning; a restart inside
Provision leaves a directory that makes every later call for the claim fail.

## 4. Snapshot controller

| module | stands for | main correspondences |
|---|---|---|
| `SnapshotBackend` | `pkg/volume/*`, the snapshots of `pkg/cloudprovider` | `plugin`; `disks[n]`: what attempt `n` left on disk; `SnapshotCreate`, `SnapshotDelete(n)`: the outcomes of a call |
| `SnapshotWorlds` | API server, informer, both worlds, populator | `object`: the VolumeSnapshot of one name; `reports`: writes not yet seen; `store`, `dsw`, `asw`; `listed`: what the populator holds |
| `Snapshotter` | `snapshotter.go` | `creating[u]`, `deleting[u]`: the operations for a UID, their step and what they have in hand; `dataFor[n]`: the VolumeSnapshotData |
| `SnapshotController` | reconciler, restarts, composition | `Reconcile`, `CreateStep`, `DeleteStep`, `Watch`, `Populate`, `Storage`, `Restart` |

The objects of one name are enough for everything the code does across objects:
worlds and operations are keyed by name and UID, calls to the API server by name only.

**Atomicity.** A step is one call to the API server or to the plugin; a Get with the
Put behind it is one step, because the Put carries the resource version. Operations of
one name exclude each other, the create and the delete operation of a snapshot do not.
The populator lists in one step and adds in another.

**Attempts.** An operation that labels its VolumeSnapshot begins an attempt. Its number
stands for the time stamp in the labels, for the snapshot on disk and for the
VolumeSnapshotData, each of which carries a name of its own in the code.

**Calls** succeed, fail, or are done with their answer lost; the plugins have further
outcomes (half an archive, an EBS snapshot that was not tagged and was deleted
again). Plugins that drop errors (`GlusterDescribe`, `CinderDelete`) answer with success.
`waitForSnapshot` gives up after 6650 s; what was written before is reported by then.

**Fairness.** Weak fairness for the informer, the populator, the reconciler and each
operation, which are goroutines of one process, and for the storage, which finishes
what it began. Nothing for users, lost watches, restarts, faults and timeouts.

**Properties.**

- `BoundHasData`: a VolumeSnapshot that names a VolumeSnapshotData finds it.
- `ActualIsBound`: what a delete operation will start from names its data, or it could
  never finish.
- `KeepsBoundDisks`: the snapshot on disk of a bound VolumeSnapshot is not deleted.
- `BecomesActual`: one that stays is taken into the actual state, whatever call fails
  and whenever the controller restarts.
- `DeletedIsRemoved`: the disk of a deleted one and its data go, behind failed calls too. Exempt
  are restarts, after which the controller knows only what is there, and after a failed call the
  data of plugins that refuse to delete a disk that is missing, and the disk of Cinder, which drops
  the error (`NothingLeft`).

## 5. Provisioners of claims

| module | stands for | main correspondences |
|---|---|---|
| `ClaimProvisioner` | the provisioner library, external, as the provisioners use it, and what they share | `claim`, `pv`, `call[c]` with its step, `stored`: volumes, users, Secrets and Services that exist |
| `CephProvisioners` | `ES/ceph/rbd`, `ES/ceph/cephfs` with its Python helper | backends `rbd`, `rbd-pv-name`, `cephfs`, `cephfs-names` |
| `GlusterProvisioners` | `ES/gluster/block`, `file`, `glusterfs` | `block-heketi`, `block-cli`, `file`, `file-clone`, `simple`; `gids`, `options` |
| `SnapshotRestore` | `snapshot-pv-provisioner`, `SnapshotRestore` and `VolumeDelete` of the plugins | `restore-hostPath`, `-glusterfs`, `-aws`, `-gce`, `-cinder` |
| `ClaimProvisioners` | all of them with the library | `Step(c)`: the next step of the call for a claim |

A behaviour has one `backend`. Claims have names, which one may have after another
(`Namings`): names of images, shares, users, Secrets and Services are random, or are made of
the PV's name or of the claim's, and that decides what a second call meets.

**Atomicity.** A step is one command or request. `Command` is done, refused, or done
without an answer, and an error ends the call; with `BestEffort` and `Tried` the code
goes on, or logs. Calls for different claims interleave; there is one for each claim. A
restart loses the calls; the GID table is filled again from the PVs, the volumes stay.

**Fairness.** Weak fairness of `Step(c)`: the library's workers repeat a failed call.
Faults are counted, so that a command does not fail for ever.

**Properties.**

- `BoundIsUsable`: a bound claim has its volume, user and Secret, whatever calls for
  other claims do, older ones of its name among them.
- `RemovedWithPV`: Delete returns nil only when these are gone, since nothing else
  names them. Three backends ignore the errors (`Forgetful`) and are left out, as is the user of
  CephFS, for the same reason (`deauthorize`).
- `ClaimIsServed`: a pending claim gets a PV, whatever an earlier call left, unless
  every call fails for a reason listed in `Blocked`.
- `ReleasedIsRemoved`: a released PV goes, unless its volume is gone and the code takes
  that for an error (`GoneAlready`).

The exemptions are what the code does, and each is a hazard in `PROJECT.json`.

## 6. Cloud providers

| module | stands for | main correspondences |
|---|---|---|
| `AWSVolumes` | `AttachDisk`, `DetachDisk`, `getMountDevice`, `endAttaching`, `device_allocator.go` | `attaching[n][d]`, `lastIndex[n]`; `disk[v]`: the call for a volume and what it read; `attachment`, `running`: EC2 |
| `ServiceController` | the caller, external, and how a call runs through its requests | `want`, `synced`; `call.steps`: requests still to make; `call.seen`: what it read; `cloud` |
| `AWSLoadBalancer` | `aws_loadbalancer.go` and its part of `aws.go` | `cloud.lb`, `cloud.group`, `cloud.open`: the nodes' groups that let the balancer in; `up`, `groupsOf`: the nodes' instances in EC2; `cache`: `lastNodeNames`, `lastInstancesByNodeNames` |
| `GCELoadBalancer` | `gce.go` from `EnsureLoadBalancer` to `EnsureLoadBalancerDeleted` | `cloud.rule`, `firewall`, `pool`, `check`, `address` |
| `OpenStackLoadBalancer` | LBaaS v2 of `openstack_loadbalancer.go` | `cloud.listeners`, `pools[p]` with members and monitor, `groups` |
| `CloudProviders` | one of these parts at a time | `part`, `provider` |

**A call as a sequence of steps.** `EnsureSteps` and its like are the requests in the order
of the code; steps that depend on what the call finds (`rebuild`, `ensurePlan`, `DropSteps`)
put further ones in front. A request whose need depends on what was read is made
with `RequestIf`; where the code compares with what it read earlier in the call, so does
the model (`call.seen`), and where it asks anew, it looks at `cloud`. A failure ends the call
behind what Go's `defer` still makes (`deferred`: GCE's release of the address, OpenStack's
cleaning up). GCE's deletion runs in three goroutines whose requests interleave.

**AttachDisk** is: read the instance; under the mutex, join what was read with the map of
attachments in progress and choose a device; ask EC2; wait. Between these steps other
calls run, EC2 goes on, somebody detaches by force, an instance is stopped, or the process
restarts. Giving up the wait may happen at any time. An instance that is stopped keeps its volumes
and is not found: `AttachDisk` then fails, `DetachDisk` succeeds without looking.

**Instances and groups of AWS.** A call begins by looking up the instances of its nodes
(`FindInstances`): those of the last call, if the names are the same, else those that run.
`call.asked` are the nodes, `call.nodes` those that were found. An instance has any security groups
(`groupsOf`), some with the tag of the cluster: the call uses its tagged group, else its single
untagged one, fails if there are several, skips an instance without any. Rules are compared with
those of the tagged groups only.

**External.** The service controller makes one call at a time for a Service, repeats one that
failed, and updates when the nodes change. ELB refuses a second listener for a port, EC2 a
device name in use and a group that a balancer being deleted still uses, and GCE reserves no
address twice. Where the Service's change cannot be made at all (an address the user owned
is given back, `Possible`) the change is left out.

**Fairness.** Weak fairness of `AWSWork`, `GCEWork`, `OpenStackWork`: a call ends, a failed one
is repeated, ELB ends its deletions. Nothing is assumed of volumes.

**Properties.**

- `InProgressIsListed`, `AttachAnswerIsTrue`, `DetachAnswerIsTrue`: an attachment under way keeps
  its entry, and answers are about this volume on this device of this node; a detachment is real,
  unless the node's instance does not run.
- `EnsuredIsExact`, `GCEEnsuredIsExact`, `OpenStackEnsuredIsExact`: after a success everything is
  as the Service says, whatever failed before, and nothing of an earlier shape is left. For AWS:
  the instances that were found are registered and their groups open, and no other tagged group.
- `OpenOnlyForBalancer`, `RuleIsLast`, `NothingIsLost`: the order of the requests, so that a
  failure at any of them leaves what the next call can still find and finish.
- `DeletedIsGone`, `AddressIsKept`: GCE's addresses are neither leaked nor lost.
- `ServiceConverges`: in the end the load balancer is as the Service says, or is gone.
- `HealthCheckIsCurrent`, which fails (§9).

## 7. Runs

| run | bounds | question and result |
|---|---|---|
| `lagging` | one directory, 5 reports, one restart, relist, unmount | Is data in use safe however late the reports are? Yes. |
| `prompt` | a directory cleaned by goroutines and a block device cleaned by jobs, one restart, lost job watch, failed job | Does the provisioner implement the lifecycle, if reports arrive during the sleep? Yes. |
| `admin` | both volumes by process, two deletions by hand, one restart | Is a PV ever created under its cleaner? No; and the cache catches up. |
| `recycling` | one directory, one restart, any delay, any number of errors | Is a released volume recycled? Yes. |
| `recycling_jobs` | one block device, the same | Yes; and no call is made for a PV in use although PV and job reports are out of step. |
| `nfs` | two volumes, IDs 0 to 2, at most three exports, one restart, both servers, with and without quotas; failing steps and rollbacks, or failing steps and writes | Are IDs distinct and PVs usable? Yes, after a write that lost blocks until the file is read. |
| `snapshots` | one VolumeSnapshot, five plugins, three attempts, one fault, one restart, one lost watch, reports two writes late | Do bound snapshots stay, and deleted ones go? Yes. |
| `claims` | two claims of one name or of two, fourteen backends, two GIDs, one fault or restart | Are claims usable and served, and is what PVs name removed? Yes, with the exemptions. |
| `cloud` | two volumes, two nodes, two devices, one fault or stopped instance; a Service with two to five shapes for each provider, on AWS three groups, two of them tagged, given to the nodes in three ways, two changes or stopped instances, two faults | Are devices distinct and answers true? Do load balancers become what the Service says? Yes. |
| `stale_success` | one directory, one deletion by hand | `DeletedAfterCleanup` fails. |
| `recreated` | two VolumeSnapshots of one name, no fault | `KeepsBoundDisks` fails. |
| `health_check` | a Service on GCE, one change, no fault | `HealthCheckIsCurrent` fails. |

**Why the bounds are enough to be interesting.** Volumes of the local
provisioner meet only in the order of one pass: two, of different kinds, give
all orders. One fault of each kind can fall at any step, and the different kinds
together; the same fault twice mostly repeats the state after the first, except
for deletions by hand, of which there are two. Three to five reports let the cache
be a whole life of a PV behind. The NFS properties relate two volumes; three
IDs, one of them ganesha's own, let an ID be reused while another is leaked and
let the IDs run out.

A create operation of a snapshot that fails begins an attempt anew: with one fault, one restart and
the race with the delete operation three attempts are what a VolumeSnapshot can use; an operation
that would need a fourth does not go on, and no property is violated for that. Two claims are what
the provisioners' properties relate; with two GIDs a failed call and one PV use the range up. With
two faults a load balancer's call may fail, and the call that mends it may fail too; with two
changes a Service may be changed, and changed back or deleted while the first change is half done.
The shapes differ in all that the code compares: they share a listener, move a port, drop one,
change ranges, subnets, affinity, protocol, health check and address. The three groupings are a
tagged group for each node, a node with that one beside an untagged one and a node that has only
the latter, and a node with two tagged groups and one with none: so every branch of
`findSecurityGroupForInstance` is taken. `MaxTargetPoolCreateInstances` is 1, so that two nodes are
too many for one request, as 200 are in the code; `NDevices` is 2 for 52, so that the ring wraps
and runs out.

`prompt` has no lost PV watch: with one, the tombstone bug (§9) leaves a dead PV
in the cache and `DeletedAfterCleanup` fails as a consequence.

NFS volumes are interchangeable, and no liveness is checked there, so that TLC may use their
symmetry. A deadlock is not checked in the runs of NFS, snapshots, claims and cloud providers: the
changes users make are bounded there, and when all are made and served, nothing is left to do. In
`nfs` failing writes and failing rollbacks do not occur in one behaviour, which would be more than
15 million states: together they leave more kinds of stale blocks, and the proofs (§8) cover them
together. The largest runs are `nfs` (4,877,783 states) and `cloud` (2,230,186).

## 8. Proofs

| module | theorem | property, for all constants |
|---|---|---|
| `LocalProofs` | `TypeCorrect` | `TypeOK` |
| | `ReclaimSafe` | `ActsOnlyOnReleased`, if nobody deletes PVs by hand |
| | `TableIsRight` | `TableTracksCleaners`, always |
| | `CleaningSafe` | `CleansOnlyReleased`, without jobs and deletions by hand |
| | `CacheFollows` | `CacheCatchesUp`, if no PV watch is lost |
| | `AvailableClean`, `DeletedClean` | `AvailableIsClean`, `DeletedAfterCleanup`, if `Prompt` |
| | `JobCleaningSafe` | `CleansOnlyReleased`, with jobs too, if `Prompt` |
| | `ImplementsLifecycle` | `FollowsLifecycle`: the refinement of `VolumeLifecycle`, if `Prompt` |
| `NFSProofs` | `NFSTypeCorrect` | `TypeOK`, with every fault |
| | `DistinctIDs` | `IDsDistinct` |
| | `LiveExported` | `LivePVsExported` |
| | `LiveLimited` | `LivePVsLimited`, all three if `Careful`, with failing writes |
| `SnapshotProofs` | `SnapshotTypeCorrect` | `TypeOK` |
| | `BoundSnapshotHasData` | `BoundHasData` |
| | `ActualStateIsBound` | `ActualIsBound` |
| | `BoundDisksKept` | `KeepsBoundDisks`, all three if `UsedOnce` |
| `ClaimProofs` | `ClaimsTypeCorrect` | `TypeOK` |
| | `BoundClaimsUsable` | `BoundIsUsable` |
| | `RemovedPVsGone` | `RemovedWithPV` |
| `CloudProofs` | `AttachesAreListed` | `InProgressIsListed` |
| | `DevicesAreDistinct` | two attaches under way for a node never use one device |
| | `AttachAnswersAreTrue`, `DetachAnswersAreTrue` | `AttachAnswerIsTrue`, `DetachAnswerIsTrue` |
| | `TypesCorrect` | `TypeOK` of `CloudProviders` |
| `BalancerProofs` | `EnsuredExact`, `OpenForBalancer` | `EnsuredIsExact`, `OpenOnlyForBalancer` of AWS |
| `GCEProofs` | `GCEEnsuredExact`, `RuleLast`, `DeletedGone` | `GCEEnsuredIsExact`, `RuleIsLast`, `DeletedIsGone` |
| | `AddressKept` | `AddressIsKept`, an action property |
| `OpenStackProofs` | `OpenStackExact`, `NoneLost` | `OpenStackEnsuredIsExact`, `NothingIsLost` |

Each rests on an inductive invariant; TLC has checked the parts of each before they were
proved. What they assume of the constants are the named assumptions of the modules; other
hypotheses stand in the table, and below why each is needed.

**`ReclaimSafe`.** Whether a call is safe depends on the PV in the server, but it
was decided from the cache, earlier. The invariant `LagInv` follows the way from
one to the other: a PV in use or to be kept is nowhere on record as one to
delete, neither in the cache nor in a report under way nor in a snapshot
(`UsedIsSafe`). What threatens this is a PV that is deleted and created anew, so
that records of the old life meet the new one. Therefore a deletion is the last
report on a PV (`DeletionLast`), a volume without PV has none under way once the
cache has forgotten it (`GoneIsQuiet`), and the Discoverer creates only what the
cache has forgotten (`CreatesUnknown`, with `HandledIsCached` for the volume in
hand and `PassShape` for the order of the pass). The assumption `NoAdmin` is
needed: a deletion by hand frees the name while a snapshot still has it, and with
it the property fails. Lost watches and restarts are covered.

**`TableIsRight`** is inductive given the types. **`CleaningSafe`** adds
`ProcessInv`: a goroutine only works for a disposable PV, because it was started
for one, its volume is not created anew while the table says running, and a PV on
its way out cannot be bound.

**The rest of `LocalProofs`.** `CacheFollows` rests on the reports under way alone: they end with
what there is (`Arrives`). The other theorems concern data: who erased it, and whether a success
stands for this life of the PV. `LifeInv` relates them: a PV that can be bound has a clean volume;
an entry of the table and a job that is there belong to a PV to delete, and a success in either
means a clean volume (`CleanedOK`); a success in the job lister, or in a report on its way there,
is that of the job that is there, for every volume still listed in the pass (`ListedOK`); what is
called in hand fits (`CalledOK`); one volume is cleaned by processes or by jobs (`ModeOK`). Under
`Prompt` a pass begins with no report under way; within a pass, and between any two of its calls,
reports still arrive late. TLC checks the invariant with the constants of `prompt` (975,472
states). Each part of `Prompt` is needed: with one lost PV watch, or one volume unmounted during
its cleanup, `DeletedAfterCleanup` fails, with one deletion by hand `AvailableIsClean`. The
refinement has one step for each step of `VolumeLifecycle`; all others stutter.

**`NFSProofs`.** `IDsDistinct` is not inductive: a restart rebuilds the maps from
the files, so every volume that holds an ID must have its block in the file
(`ExportStands`, `ProjectStands`), or in the content that a half-done removal will
write back (`Kept`); that content is unique because its writer holds the mutex
(`WriterInv`). For ganesha, whose exports change later than the file, `ServedInv`
says that each ID is exported at most once and that a volume being deleted is
still exported until its own Unexport; hence a new owner of its ID is refused until
then, and that Unexport cannot hit anybody else. `LimitsInv` needs the distinctness of
the projects. Where blocks can be lost, each part holds as long as `lost` says that it must: what
stands in the file until a write fails, what memory, server and file system have until the rest
is read. `Careful` excludes the faults `"retry"` and `"server"`, with which the properties fail.

**`SnapshotProofs`.** The types need no hypothesis. For the rest, three copies of a
VolumeSnapshot and the operations disagree while reports are under way, and the invariant says
how far: whoever has seen it bound, it stays bound as long as it is there (`Seen`); before it
is created nobody knows of it (`NotYetOK`); while it is there, it is desired as soon as the
informer has it, and no delete operation runs (`PresentOK`); an operation that is about to bind
it has data that exists (`InHandOK`). It follows that no step deletes its snapshot on disk.
`UsedOnce` says that a name is used for one VolumeSnapshot: the run `recreated` shows
`KeepsBoundDisks` violated for a name used again (§9). Whether the other two hold for such names
is neither proved nor checked. TLC checks the invariant on 339,113 states.

**`ClaimProofs`** holds for every provisioner at once. A call at a step has made what the steps
before it make (`MadeAt`), or removed what they remove (`GoneAt`). Other calls disturb that only
through a common name: a call and a PV hold one volume between them, with a name of their claim or
a fresh one (`OwnName`), hence two claims hold none in common (`Apart`), except for CephFS with
deterministic names and snapshots restored on GlusterFS, where nothing that they share is ever
removed. What a removed PV leaves is the user of CephFS at most. `BoundIsUsable` and
`RemovedWithPV` are parts of the invariant (`Usable`, `Gone`).

**`CloudProofs`.** `InProgressIsListed` is inductive given the types (`DiskTypeOK`), for two
reasons. `getMountDevice` gives a device that the joined mappings leave free (`GetNextIsFree`), and
what is in the map is in the mappings, so that no entry is overwritten; and `endAttaching` removes
an entry only if it names its own volume. `DevicesAreDistinct` follows at once: one entry names one
volume. What a call read of the instance before it took the mutex does not matter for it.
`AttachAnswersAreTrue` rests on the comparison behind the wait; `DetachAnswersAreTrue` on the fact
that a volume in state detached is on no node, and says nothing of a node without a running
instance (`DetachUnseen`). Assumed is `DevicesAssumption` only; timeouts, forced detachments and
restarts are covered.

**`BalancerProofs`.** A call of AWS has made the first `m` of a fixed sequence of steps
(`InOrder`). `Done` says for each `m` what that has established, beginning with any state that
failed calls have left. Most steps bring one part of the load balancer in line with the Service
(`EnsureGroup`, `EnsureBalancer`, `EnsureRest`); what is compared with an earlier description needs
that this part has not changed since. A loop over differences may end when what is still to do
`Covers` the difference. A load balancer that is gone has no rule in a tagged group (`Whole`), as
`EnsureLoadBalancerDeleted` withdraws them first; of untagged groups only the rules that are needed
are spoken of (`Opened`). Which groups the instances have, which of them run and what the cache
holds is left open: the invariant is about `call.nodes`, the instances found.

**`GCEProofs`.** A call of GCE decides on steps as it goes (`rebuild`), so its place is
not a number: the invariant tells from the set of steps that are left what is made, and a
fixed order of all steps (`Rank`) tells which can be left together. `Looked` says what the call
has seen that is still so, up to the rebuilding; `Placed` that the address and the firewall
are settled; `Rebuilt` that the rule and the pool are as asked or will be made, and that a pool
is dropped only when no rule is left over it. Failures may come at any point, and then the
deferred release is all that is left. What must hold across calls is `Standing` (no rule without
pool and firewall) and `Agreed`: a rule's address is the reserved one if there is one, and the
address once answered is in the rule or reserved. The latter is kept since an address is
`Releasable` only while the rule has it, which is why `rebuild` takes back the permission when the
rule is dropped. `AddressKept` follows: only the last step of a successful call changes the
answer, and then rule, reservation and old answer agree. `TornDown` says of each resource that it
is gone or still in a goroutine's hands. TLC checks the invariant on 7,080,648 states, with three
changes and three faults.

**`OpenStackProofs`.** A call of OpenStack has steps for each port, and which ports those are
depends on the Service and on the listeners it finds; so its place is neither a number nor one of a
fixed set. `ForEach` gives the steps of a loop over ports, and the lemmas on it (`Loops`,
`ForNone`) say which steps it makes and that those for one port are in the order given. The steps
left to a call are a set, and two facts about their order are enough: those for one port, or for
none, are ordered by `OSRank`, and the load balancer goes behind its listeners (`Ordered`); and the
list of members is made right before they are changed (`Follows`). `Progress` says which of six
stages a call is in, and what is done if a step is not left: `Ensuring` for each port of the
Service its listener, pool and monitor, for every other listener that it will be dropped;
`MembersMade` that the members are right or the difference is in hand; `Dropping` that each
listener, and its pool first, will be dropped. An ensure that fails at its security groups deletes
the load balancer, in the stages of a deletion. What holds across calls is `OSStanding`, of which
`NothingIsLost` is a part: no pool without listener, no listener and no address without load
balancer. TLC checks the invariant on 1,054,500 states, with three changes and three faults.
`OpenStackAssumption` says that the ports of a Service are distinct: of one protocol they are, and
the code refuses all but TCP (`openstack_loadbalancer.go:601`).

**`TypesCorrect`** joins the invariants of the three providers and of the disks. It says more than
types: a call is idle exactly when it has no step left, which is what `Done`,
`GCEDone` and `OSTypes` know.

**Model-checked only.** Liveness (`ReleasedIsRecycled`, `BecomesActual`, `DeletedIsRemoved`,
`ClaimIsServed`, `ReleasedIsRemoved`, `ServiceConverges`), as it is out of the prover's reach.
`CleansOnlyReleased` with deletions by hand (run `admin`). Every other invariant and action property
of a passing run is stated by a theorem.

## 9. Where the code departs from what it says

Three are runs that TLC refutes; `PROJECT.json` quotes the lines.

- **`stale_success`** (`deleter.go:157`). An entry of the table outlives a PV
  that an administrator deletes during its cleanup. The next PV of the same name
  is deleted on that entry, without having been cleaned.
- **`recreated`** (`reconciler.go:109`). A VolumeSnapshot deleted and created anew while its create
  operation runs is bound by that operation and entered into the actual state under
  its new UID. The desired state does not know it yet: the reconciler deletes its disk.
- **`health_check`** (`gce.go:912`). The health check that is returned after an update is the one
  before it; if the target pool is rebuilt in the same call, the old one comes back.

Others were found with the same models, with a property or a fault that the runs leave
out. They are hazards in `PROJECT.json`, notes of such, or exemptions in the properties:

- Local volumes. A job deleted in the foreground counts as a cleaning of the PV's next life
  (`deleter.go:350`). After a deletion by hand the Discoverer publishes a volume whose cleaning job
  its lister does not know yet (`deleter.go:342`). Tombstones are dropped, and the volume is lost
  until a restart (`populator.go:53`).
- NFS. A repeated Delete frees an ID whose owner has changed (`export.go:104`). The limit on
  exports is checked before the ID is taken, without the mutex (`export.go:51`). A restart of
  ganesha during a Delete lets its Unexport remove the export of another volume (fault `"server"`).
  A file is rewritten in place (`util.go:106`): when the write fails, the blocks of other volumes
  are lost, and after the next restart their exports are not served and their IDs are given out
  again, against `export.go:45`, "Each ganesha export needs a unique fsid and Export_Id".
- Snapshots. The label of the PV's name is read under a name nobody writes, so that a Cinder
  snapshot found by its tags never gets a VolumeSnapshotData (`snapshotter.go:395`). A delete
  operation whose data is gone fails for ever, against the comment in line 598; so its data stays
  behind a removal whose answer was lost. Except with Cinder, a disk taken before a restart is not
  found again, and another is taken (`:582`). A failed list of VolumeSnapshotData is taken for an
  empty one (`snapshotter.go:147`).
- Claims. The script that deauthorizes a user of CephFS takes every error of the cluster for
  "Already gone, great." (`cephfs_provisioner.py:313`): Delete succeeds, the user stays, and
  nothing names it. With `deterministicNames` CephFS deletes in another group than it created in,
  and no share is ever deleted (`cephfs-provisioner.go:258`). The gluster file provisioner keeps
  one call's options in a field, and another call's claim gets the endpoints
  (`glusterfile-provisioner.go:152`); it frees a GID before the volume is gone, and again in each
  retry (`:610`).
- Volumes of AWS. "If instance no longer exists, safe to assume volume is not attached"
  (`aws.go:1626`): the lookup finds running instances only, and for a node whose instance is
  stopped `DetachDisk` says that a volume is detached which is not.
- Load balancers. On AWS a rule may be added to a single untagged group (`aws.go:2985`), but is
  looked for in tagged ones (`:3058`): it stays when the node or the Service goes, against line
  3023, and the balancer's group can then not be deleted either. `getInstancesByNodeNamesCached`
  "returns an error if any cannot be found" (`:3325`), which it does not: nodes whose instance does
  not run are left out of the load balancer, and stay out, by the cache, when it runs again. The
  security group stays if the deletion fails behind the load balancer's (`aws.go:3163`), and
  `UpdateLoadBalancer` returns nil when instances could not be registered (`:3270`). On GCE the
  wrong error is tested, and a failed list makes a reserved address look unreserved (`gce.go:663`);
  an address whose release failed stays reserved until the Service goes; the firewall's protocol is
  not compared (`:1030`); after a failure a pool of more than 200 nodes may stay half full. On
  OpenStack a listener without pool makes `EnsureLoadBalancerDeleted` panic, again and again
  (`openstack_loadbalancer.go:1102`), and each `EnsureLoadBalancer` makes another security group,
  of which deletion by name removes none (`:843`).

## 10. What is not modelled

Local volumes: resyncs of the informers, which repeat what the cache knows; PVs
of other provisioners, which the Populator ignores; collisions of the 32-bit hash
in PV names; capacities, node affinity, the pod of a job, metrics, events and the
reading of the configuration; a report that was received but not yet handled
when the watch is lost. That a directory no longer mounted is cleaned
"successfully" is modelled, as data of the missing disk that stays (`media`),
and is no violation of the properties here. Changing the policy to Retain after
the release is left out: Kubernetes gives it no order with the reclaim.

NFS: parsing of options, the choice of the server's address, grace period and
rlimits; the loss of `/etc/exports` with the container's file system in
kernel mode; leases between provisioners that share a name (in the library). A short write of
`addToFile`, which could leave part of a block behind the others; part of a block after a failed
`WriteFile` (the model leaves whole blocks, any of them, where the code leaves the first ones).

Snapshots: promotion, whose operation is empty in the code; `syncStates`, which is empty; the
texts of labels and conditions; the generated client and deep copies. Two VolumeSnapshots of
different names share nothing but the plugin.

Claims: parsing of storage class parameters and capacities; `ExpandVolumeDevice`; the leases of
the library; the VolumeSnapshot of a restore stays while the claim is served.

Cloud providers: routes, zones and the other calls on instances, which only read or make single
requests; LBaaS v1; the attachment of disks on GCE and OpenStack, single requests too; on AWS the
parsing of annotations, `ApplySecurityGroupsToLoadBalancer` (the balancer keeps its one group
here), and `DisableSecurityGroupIngress`; on GCE more than one zone; giving up a reserved address
the user chose; the protocol of the firewall and the session affinity of OpenStack's pools, which
the code does not update. On AWS a lookup of instances that fails is a call that was not made yet;
the cache of instances is filled by the calls for the one Service only; instances are stopped and
started, and those that are terminated for good, whose volumes EC2 detaches, are left out.
`createTargetPool` of GCE panics if the health check cannot be made (`gce.go:1118` uses the missing
answer), where the model has a failed call. OpenStack's request to delete a monitor with an empty
ID (`openstack_loadbalancer.go:1119`) is a request that finds nothing or fails.

Everything the inventory calls not modelled.

## 11. Plan

Done: the five groups of sections 2 to 6 with their runs, and the theorems of section 8.

1. **Local volumes, second part.** A second provisioner on the same node, and a theorem for
   `CleansOnlyReleased` with deletions by hand in process mode.
2. **NFS, second part.** Liveness of claims after a crash inside Provision, and the
   consequences of retried Deletes for limits.
