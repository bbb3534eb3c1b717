SPECIFICATION Spec
CONSTANTS
    q = q
    Jobs = {j1, j2}
    Queues = {q}
    QueueOf <- JobQueue
    MaxAttempts <- Caps
    Cap = 2
    Schedulers = {s1, s2}
    Clients = {c1}
    MaxBatch = 2
    MaxDisruptions = 2
SYMMETRY Symmetry
INVARIANTS
    TypeOK
    ClaimsAreDisjoint
    AttemptsCounted
CHECK_DEADLOCK FALSE
