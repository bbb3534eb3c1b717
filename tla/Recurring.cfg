SPECIFICATION FairSpec
CONSTANTS
    i1 = i1
    i2 = i2
    r1 = r1
    NoOne = NoOne
    Gone = Gone
    Specs = {i1}
    Runners = {r1, r2}
    Interval = 2
    Behind = 1
    Every <- Intervals
    CronTimes <- EveryThird
    Skew <- Skews
    Catchup = {i1}
    MaxCatchup = 1
    MaxSkew = 0
    LeaseEvery = 3
    MaxScan = 1
    StartTime = 1
    MaxTime = 8
    MaxDisruptions = 1
INVARIANTS
    TypeOK
    FiresOnSchedule
    CatchupMissesNothing
    DuplicatesNeedDisruptions
    DeletedFallsSilent
PROPERTIES
    NextRunAdvances
    KeepsFiring
CHECK_DEADLOCK FALSE
