CONSTANTS
    Controllers = {c1, c2}
    Sessions = {s1}
    Invocations = {i1}
    MaxParallelism = 1
    FailureStatuses = {"rejected", "timed_out"}
    None = None
    SpeculativeIntents = FALSE
    UntrackedReleases = FALSE
    MaxInFlight = 2
    MaxLosses = 1
SPECIFICATION SubmissionSpec
SYMMETRY Symmetry
INVARIANTS
    AtMostOneOperation
    WorkIsCanonical
CHECK_DEADLOCK FALSE
