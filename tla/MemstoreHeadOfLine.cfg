SPECIFICATION Spec
CONSTANTS
    Jobs = {j1, j2}
    Queues = {q1}
    Priorities = {0, 1}
    MaxAttempts <- Caps
    Cap = 2
    MaxBatch = 2
    Visibility = 0
    MaxTime = 1
INVARIANTS
    DueJobIsFound
CHECK_DEADLOCK FALSE
