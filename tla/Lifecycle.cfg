\* Two installers, three configurations for three users.
CONSTANTS
    Installers = {p1, p2}
    Invokers = {"root"}
    Accounts = {"ann"}
    Configs <- MCConfigs
    Family = "debian"
    InitSystem = "systemd"
    Faults = TRUE
    None = None
SPECIFICATION Spec
SYMMETRY Symmetry
INVARIANTS
    TypeOK
    Converged
    VerifyAgrees
    RecordFaithful
