\* A user with sudo applies, on an interpreter older than 3.14.
CONSTANTS
    docker = docker
    composeV2 = composeV2
    plugin = plugin
    s1 = s1
    g1 = g1
    g2 = g2
    g3 = g3
    None = None
    Refused = Refused
    Groups <- MCGroups
    Repos <- MCRepos
    Listings = {TRUE, FALSE}
    Kinds <- MCKinds
    Sources <- MCSources
    Random <- MCRandom
    Invokers = {"user"}
    Pythons = {"raises"}
    Faults = FALSE
SPECIFICATION Spec
INVARIANT NeverDenied
