CONSTANTS
    Controllers = {c1, c2}
    Sessions = {s1, s2}
    Invocations = {i1, i2}
    MaxParallelism = 2
    FailureStatuses = {"rejected"}
    None = None
SPECIFICATION Spec
SYMMETRY Symmetry
INVARIANTS
    CanonicalOccupancy
    LeasesAreSerial
    LeasedOnce
    RetryChain
    HistoriesReplay
PROPERTIES
    HeadSpec
CHECK_DEADLOCK FALSE
