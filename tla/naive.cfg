\* DATETIME2 comes back from the driver without a timezone.
CONSTANTS
    Inst = {i1}
    Monitored <- OneInstance
    Invocations = {p1, p2}
    Keys <- WindowKeys
    Vals <- EventSets
    Batches = {}
    NoVal <- NoEvents
    DryRuns = {FALSE}
    Overlap = FALSE
    MaxTime = 1
    MaxRuns = 2
    Event = {e1, e2}
    Group = {g1, g2}
    Groupings <- SameGroup
    Setups <- Naive
    MayRollOver = FALSE
    p1 = p1
    p2 = p2
    i1 = i1
    e1 = e1
    e2 = e2
    g1 = g1
    g2 = g2
SPECIFICATION WorkloadSpec
INVARIANT WatermarkIsUsable
