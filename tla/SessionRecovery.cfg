CONSTANTS
    Controllers = {c1, c2}
    Sessions = {s1}
    Invocations = {i1, i2}
    MaxParallelism = 1
    FailureStatuses = {"rejected"}
    None = None
    SpeculativeIntents = FALSE
    UntrackedReleases = TRUE
    Drivers = {c1}
    MaxCrashes = 1
SPECIFICATION FairRecoverySpec
INVARIANTS CoherentIsBacked
PROPERTIES
    StaleStepsAreConfined
    RecoveryCompletes
CHECK_DEADLOCK FALSE
