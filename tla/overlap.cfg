\* Two invocations of one task on one instance, writing the same keys.
CONSTANTS
    Inst = {i1, i2}
    NoVal = NoVal
    p1 = p1
    p2 = p2
    i1 = i1
    i2 = i2
    k1 = k1
    k2 = k2
    v1 = v1
    v2 = v2
    Monitored <- OneInstance
    Invocations = {p1, p2}
    Keys = {k1, k2}
    Vals = {v1, v2}
    Batches <- SharedKeyBatches
    DryRuns = {TRUE, FALSE}
    Overlap = TRUE
    MaxTime = 1
    MaxRuns = 2
SPECIFICATION FairSpec
INVARIANT TypeOK
INVARIANT StatusIsTruthful
INVARIANT SuccessIsDurable
PROPERTY ClosedRowsAreFinal
PROPERTY ImplementsLedger
PROPERTY EveryInstanceIsReached
