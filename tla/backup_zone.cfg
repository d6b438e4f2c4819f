\* An instance one hour east of UTC.
CONSTANTS
    Runs = {r1}
    Hour = 2
    Day = 4
    FullMax = 2
    LogMax = 1
    Zones <- East
    Null = Null
    MaxTime = 7
    MaxEvents = 3
    r1 = r1
SPECIFICATION HealthSpec
INVARIANT GreenMeansBackedUp
