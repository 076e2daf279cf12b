SPECIFICATION FairSpec
CONSTANTS
    c1 = c1
    c2 = c2
    Claims = {c1, c2}
    Namings <- MCNamings
    Backends = {"rbd", "rbd-pv-name", "cephfs", "cephfs-names", "block-heketi", "block-cli",
                "file", "file-clone", "simple", "restore-hostPath", "restore-glusterfs",
                "restore-aws", "restore-gce", "restore-cinder"}
    GIDs = {1, 2}
    MaxFaults = 1
INVARIANTS TypeOK BoundIsUsable RemovedWithPV
PROPERTIES ClaimIsServed ReleasedIsRemoved
CHECK_DEADLOCK FALSE
