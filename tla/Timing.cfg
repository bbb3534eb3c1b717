SPECIFICATION Spec
CONSTANTS
    NoWaiter = NoWaiter
    NoJob = NoJob
    Dispatcher = Dispatcher
    Users <- ClockUsers
    Width = 5
    Jobs = {j1, j2}
    Workers = {w1, w2}
    MaxAttempts = 0
    PollEvery = 2
    Backoffs <- SomeBackoffs
    Delays = {0, 3}
    Naps = {0, 1}
    MaxLate = 1
    MaxTime = 8
SYMMETRY WorkerSymmetry
INVARIANTS
    PollBoundsLatency
    RetryWaitsForBackoff
    BackoffFollowsFormula
CHECK_DEADLOCK FALSE
