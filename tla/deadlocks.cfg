\* Two deadlocks, one of them possibly unreadable, two runs that may overlap, and both purges.
CONSTANTS
    Inst = {i1}
    Monitored <- OneInstance
    Invocations = {p1, p2}
    Keys <- Times
    Vals = {d1, d2}
    Batches = {}
    NoVal = NoVal
    DryRuns = {FALSE}
    Overlap = TRUE
    MaxTime = 1
    MaxRuns = 2
    Event = {d1, d2}
    BadChoices <- MayBeBad
    Setups <- AwareDriver
    KeepRuns = 0
    KeepFacts = 2
    p1 = p1
    p2 = p2
    i1 = i1
    d1 = d1
    d2 = d2
SPECIFICATION DeadlocksSpec
SYMMETRY Alike
INVARIANT DeadlocksTypeOK
INVARIANT TruthfulUpToTwins
INVARIANT DeadlockLossOnlyInGap
