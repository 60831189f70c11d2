\* The same threads without symmetry, which liveness does not allow: a
\* one-slot ring, so that two submitters compete for the slot.
CONSTANTS
    Workers = {w1, w2}
    Clients = {c1, c2}
    Owner = c1
    Tasks = {t1, t2, t3}
    Capacity = 1
    MaxBatch = 2
    NoTask = NoTask
SPECIFICATION FairSpec
PROPERTIES
    CallsReturn
    ImplementsTaskPool
