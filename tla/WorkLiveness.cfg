CONSTANTS
    q1 = q1
    q2 = q2
    Requests = {q1}
    Drivers = {p1, p2}
    EnvelopeLimit = 2
    AuthorityLimit <- MCAuthorityLimit
    Times = {1}
    MaxWaits = 2
    Dispatches <- MCDispatches
    Capabilities <- Callable
    Refs <- MCRefs
    Actor = "waterfound"
    None = None
SPECIFICATION FairWorkSpec
PROPERTIES BridgeIsMonotone WorkResolves
