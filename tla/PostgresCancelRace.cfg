SPECIFICATION Spec
CONSTANTS
    q = q
    Jobs = {j1}
    Queues = {q}
    QueueOf <- JobQueue
    MaxAttempts <- Caps
    Cap = 2
    Schedulers = {s1, s2}
    Clients = {c1}
    MaxBatch = 2
    MaxDisruptions = 0
PROPERTIES
    OnlyPendingIsCancelled
CHECK_DEADLOCK FALSE
