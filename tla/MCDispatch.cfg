CONSTANTS
    Controllers = {c1, c2}
    Sessions = {s1, s2}
    Invocations = {i1, i2}
    MaxParallelism = 2
    FailureStatuses = {"rejected", "timed_out"}
    None = None
    SpeculativeIntents = TRUE
    UntrackedReleases = FALSE
SPECIFICATION Spec
SYMMETRY Symmetry
INVARIANTS
    SubmissionsAreCanonical
    OneSubmissionPerInvocation
    ReleaseHasEvidence
    RetryIsRebuildable
PROPERTIES
    EvidenceIsFinal
    HeadSpec
CHECK_DEADLOCK FALSE
