SPECIFICATION Spec
CONSTANTS
    Jobs = {j1, j2, j3}
    Queues = {q1, q2}
    Priorities = {0, 1}
    MaxAttempts <- Caps
    Cap = 2
    MaxBatch = 2
    Visibility = 0
    MaxTime = 1
SYMMETRY JobSymmetry
INVARIANTS
    HeapsMatchMap
    BatchIsSorted
PROPERTIES
    ImplementsJobTable
CHECK_DEADLOCK FALSE
