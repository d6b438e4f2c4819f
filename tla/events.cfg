\* Two workload runs that may overlap, with failures, crashes, rollover and clock skew.
CONSTANTS
    Inst = {i1}
    Monitored <- OneInstance
    Invocations = {p1, p2}
    Keys <- WindowKeys
    Vals <- EventSets
    Batches = {}
    NoVal <- NoEvents
    DryRuns = {FALSE}
    Overlap = TRUE
    MaxTime = 0
    MaxRuns = 2
    Event = {e1, e2}
    Group = {g1, g2}
    Groupings <- AnyGroups
    Setups <- AnySetup
    MayRollOver = TRUE
    p1 = p1
    p2 = p2
    i1 = i1
    e1 = e1
    e2 = e2
    g1 = g1
    g2 = g2
SPECIFICATION WorkloadSpec
SYMMETRY Alike
INVARIANT WorkloadTypeOK
INVARIANT DoubleCountIsExplained
INVARIANT LossIsExplained
