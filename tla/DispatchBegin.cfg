CONSTANTS
    Controllers = {c1, c2}
    Sessions = {s1}
    Invocations = {i1}
    MaxParallelism = 1
    FailureStatuses = {"rejected", "timed_out"}
    None = None
    SpeculativeIntents = FALSE
    UntrackedReleases = FALSE
SPECIFICATION Spec
PROPERTY BeginsWhileActive
CHECK_DEADLOCK FALSE
