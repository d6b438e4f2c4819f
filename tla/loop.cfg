\* Two invocations one after the other, each over two instances.
CONSTANTS
    Inst = {i1, i2}
    NoVal = NoVal
    p1 = p1
    p2 = p2
    i1 = i1
    i2 = i2
    k1 = k1
    k2 = k2
    v1 = v1
    v2 = v2
    Monitored <- TwoInstances
    Invocations = {p1, p2}
    Keys = {k1}
    Vals = {v1}
    Batches <- SmallBatches
    DryRuns = {TRUE, FALSE}
    Overlap = FALSE
    MaxTime = 0
    MaxRuns = 4
SPECIFICATION FairSpec
INVARIANT StuckRowIsExplained
INVARIANT ExitCodeIsHonest
INVARIANT DryRunWritesNothing
PROPERTY EveryInstanceIsReached
