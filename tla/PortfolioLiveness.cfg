CONSTANTS
    Works = {"w1", "w2", "w3"}
    Wakes = {"wake"}
    Boundaries = {"spend"}
    Identities = {k1}
    Policy <- MCGatePolicy
    None = None
    Hosts = {h1, h2}
    Genesis <- MCRunning
    Bundles <- MCBundles
    MaxEvents = 2
    MaxDecisions = 1
    MaxBurst = 1
    MaxCrashes = 1
SPECIFICATION FairSpec
PROPERTY EventsSettle
CHECK_DEADLOCK FALSE
