\* Two overlapping runs, a ring of two, one restart, and a purge.
CONSTANTS
    Runs = {r1, r2}
    Period = 2
    Capacity = 2
    MaxDelay = 1
    Keep = 4
    MaxTime = 8
    MaxBoots = 1
    Null = Null
    r1 = r1
    r2 = r2
SPECIFICATION CpuSpec
SYMMETRY AnyOrder
INVARIANT CpuTypeOK
INVARIANT StampedNearby
INVARIANT PollCoversRing
