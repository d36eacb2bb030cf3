\* Both ways to write; where writes are synced, the host may lose power.
CONSTANTS
    Versions = {v1, v2, v3}
    Missing = Missing
    Torn = Torn
    Backup = TRUE
    Modes = {"direct", "privileged"}
    PowerLoss = {"direct"}
SPECIFICATION Spec
SYMMETRY Symmetry
INVARIANTS
    TypeOK
    OperatorWorkKept
PROPERTIES
    UndoExact
    
    Atomic
