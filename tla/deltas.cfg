\* Overlapping runs of the io_latency collector, with restarts, failures and purges.
CONSTANTS
    Counter <- IoCounters
    Step <- Ios
    Part <- Ios
    Runs = {r1, r2}
    Keep = 0
    MaxTime = 2
    MaxWork = 2
    MaxDrops = 1
    r1 = r1
    r2 = r2
SPECIFICATION CounterSpec
SYMMETRY Alike
INVARIANT CounterTypeOK
INVARIANT DeltaNeverOvercounts
INVARIANT DeltaExactWithoutRestart
INVARIANT AvgLatencyIsPlausible
