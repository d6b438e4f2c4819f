\* A database at UTC or west of it, backed up and failing at any time.
CONSTANTS
    Runs = {r1}
    Hour = 2
    Day = 4
    FullMax = 2
    LogMax = 1
    Zones <- UtcOrWest
    Null = Null
    MaxTime = 7
    MaxEvents = 3
    r1 = r1
SPECIFICATION HealthSpec
INVARIANT HealthTypeOK
INVARIANT GreenMeansBackedUp
INVARIANT SilenceTurnsRed
INVARIANT NoEarlyAlarm
