SPECIFICATION Spec
CONSTANTS
    Jobs = {j1, j2}
    Queues = {q}
    Priorities = {1, 2}
    MaxAttempts <- Caps
    Cap = 2
    Schedulers = {s1, s2}
    Clients = {c1}
    Moves = FALSE
    MaxBatch = 2
    MaxDisruptions = 1
SYMMETRY Symmetry
INVARIANTS
    SetsMatchHashes
    ClaimsAreDisjoint
    CopiesAreCurrent
PROPERTIES
    ImplementsJobTable
CHECK_DEADLOCK FALSE
