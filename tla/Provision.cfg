\* Root and users, old and new interpreters, indexes that change, applies that fail.
CONSTANTS
    docker = docker
    composeV2 = composeV2
    plugin = plugin
    s1 = s1
    g1 = g1
    g2 = g2
    g3 = g3
    None = None
    Refused = Refused
    Groups <- MCGroups
    Repos <- MCRepos
    Listings = {TRUE}
    Kinds <- MCKinds
    Sources <- MCSources
    Random <- MCRandom
    Invokers = {"root", "user"}
    Pythons = {"raises", "false"}
    Faults = TRUE
SPECIFICATION Spec
SYMMETRY Symmetry
INVARIANTS
    TypeOK
    PackagesProvided
    ReliedOnKept
PROPERTIES
    WrittenInPrivate
    SettledNoOp
