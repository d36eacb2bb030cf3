\* Two installers are started on a host whose lock file does not exist.
CONSTANTS
    Procs = {p1, p2}
    Inodes = {i1, i2, i3}
    NoProc = NoProc
    NoInode = NoInode
    LockPersists = FALSE
    MaxPolls = 1
    Records = {r1}
    NoRecord = NoRecord
SPECIFICATION Spec
SYMMETRY Symmetry
INVARIANT MutualExclusion
