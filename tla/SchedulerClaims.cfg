SPECIFICATION MetricsSpec
CONSTANTS
    j1 = j1
    j2 = j2
    s1 = s1
    s2 = s2
    p1 = p1
    p2 = p2
    w1 = w1
    w2 = w2
    w3 = w3
    q = q
    NoJob = NoJob
    Jobs <- TwoJobs
    Queues <- OneQueue
    QueueOf <- JobQueue
    MaxAttempts <- Caps
    Schedulers <- TwoSchedulers
    Pools <- TwoPools
    Workers <- SomeWorkers
    SchedulerOf <- PoolScheduler
    Serves <- PoolQueue
    PoolOf <- WorkerPool
    Handlers <- SecondLacksOne
    Cap = 2
    BigPool = TRUE
    MaxDisruptions = 1
INVARIANTS
    TypeOK
    ClaimedOnce
    CopiesAreCurrent
    ReportsAreFinal
    GaugeDriftIsBounded
CHECK_DEADLOCK FALSE
