\* The lock file is on a tmpfs, absent at boot: two installers and reboots.
CONSTANTS
    Procs = {p1, p2}
    Inodes = {i1, i2, i3}
    NoProc = NoProc
    NoInode = NoInode
    LockPersists = FALSE
    MaxPolls = 2
    Records = {r1, r2}
    NoRecord = NoRecord
SPECIFICATION LiveSpec
INVARIANTS
    TypeOK
    ExclusiveUnlessClobbered
    HeldThroughout
    NoOrphanLock
PROPERTIES
    Serializable
    WaiterEnds
