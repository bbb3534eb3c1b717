SPECIFICATION RedisSpec
CONSTANTS
    r1 = r1
    NoOne = NoOne
    Gone = Gone
    Blank = Blank
    Specs = {i1, Blank}
    Runners = {r1, r2}
    Hour = 3
    Behind = 1
    Every <- Intervals
    CronTimes <- EverySecondTick
    Skew <- Skews
    Catchup = {i1}
    MaxCatchup = 3
    MaxSkew = 0
    LeaseEvery = 4
    Second = 3
    MaxScan = 1
    StartTime = 1
    MaxTime = 7
    MaxDisruptions = 1
INVARIANTS
    DuplicatesNeedDisruptions
    IndexMatchesHashes
    GhostsNeedADelete
CHECK_DEADLOCK FALSE
