\* Applies that fail or are killed anywhere, on systemd and OpenRC.
CONSTANTS
    Passwords = {a, b, c}
    Confs = {c1, c2}
    Units = {u1, u2}
    None = None
    NoAuth = NoAuth
    InitSystems = {"systemd", "openrc"}
    Faults = TRUE
SPECIFICATION Spec
SYMMETRY Symmetry
INVARIANTS
    TypeOK
    UpAfterOk
    AuthMatches
    RunsConfigured
    DiskRuns
PROPERTIES
    SettledNoOp
