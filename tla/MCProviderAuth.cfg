CONSTANTS
    Surfaces <- MCSurfaces
    QueueIds <- MCQueueIds
    Items = {w1, w2}
    Drainers = {d1, d2}
    Limits = {None, 1}
    MaxItems = 1
    MaxTime = 1
    MaxFaults = 1
    MaxCopies = 1
    None = None
SPECIFICATION Spec
INVARIANTS NewestEvidenceStands GateNeedsRejection DrainedWasDone
PROPERTIES QueuedWorkDrains
CHECK_DEADLOCK FALSE
