CONSTANTS
    Drivers = {p1, p2}
    Dispatches <- MCDispatches
    Capabilities <- MCCapabilities
    Refs <- MCRefs
    Actor = "waterfound"
    Hosts <- MCHosts
    None = None
SPECIFICATION FairSpec
INVARIANTS CallsAreAnnounced ResultsAreDurable
PROPERTY ActivationResolves
