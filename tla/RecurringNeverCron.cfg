SPECIFICATION FairSpec
CONSTANTS
    i1 = i1
    i2 = i2
    r1 = r1
    NoOne = NoOne
    Gone = Gone
    Specs = {i2}
    Runners = {r1}
    Interval = 2
    Behind = 0
    Every <- Intervals
    CronTimes <- NeverMatches
    Skew <- Skews
    Catchup = {}
    MaxCatchup = 6
    MaxSkew = 0
    LeaseEvery = 2
    MaxScan = 1
    StartTime = 1
    MaxTime = 6
    MaxDisruptions = 0
PROPERTIES
    ScanEnds
CHECK_DEADLOCK FALSE
