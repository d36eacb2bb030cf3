\* Applies that fail or are killed anywhere; other sites break and are repaired.
CONSTANTS
    Sites = {s1, s2, bad}
    ValidSites = {s1, s2}
    None = None
    NeedsModules = TRUE
    InitSystems = {"systemd", "openrc"}
    Faults = TRUE
SPECIFICATION Spec
SYMMETRY Symmetry
INVARIANTS
    TypeOK
    SiteLoads
    ServesConfigured
PROPERTIES
    NoRejectedRestart
