\* Two runs that may overlap, up to three that commit, over two databases and three days.
CONSTANTS
    Runs = {r1, r2}
    Database = {d1, d2}
    Object = {o1, o2}
    HomeOf <- AllInFirst
    Val = {v1, v2}
    ContentsOf <- OneAndTwo
    Configured <- BothOrDiscovered
    Keep = 1
    MaxDay = 2
    MaxEvents = 1
    MaxRuns = 2
    r1 = r1
    r2 = r2
    d1 = d1
    d2 = d2
    o1 = o1
    o2 = o2
    v1 = v1
    v2 = v2
SPECIFICATION DailySpec
SYMMETRY Alike
CHECK_DEADLOCK FALSE
INVARIANT DailyTypeOK
INVARIANT StorageShowsLastSeen
INVARIANT OpportunitiesShowLastRun
