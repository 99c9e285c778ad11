CONSTANTS
    Works = {"w1", "w2", "w3"}
    Wakes = {"wake"}
    Boundaries = {"spend"}
    Identities = {k1, k2}
    Policy <- MCPolicy
    None = None
    Hosts = {h1, h2}
    Genesis <- MCGenesis
    Bundles <- MCBundles
    MaxEvents = 2
    MaxDecisions = 1
    MaxBurst = 2
    MaxCrashes = 1
SPECIFICATION Spec
INVARIANTS RuntimeTypeOK AlwaysRecovers AppliedOnce ResultsAreTrue NoWorkIsLost
PROPERTIES GateNeedsAuthority BurstStops HeadSpec
CHECK_DEADLOCK FALSE
SYMMETRY Symmetry
