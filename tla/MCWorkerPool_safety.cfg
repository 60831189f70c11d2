\* Two workers, three clients, five tasks through a two-slot ring: the ring
\* wraps and fills up, a batch is longer than the queue, and two submitters
\* sleep at once.
CONSTANTS
    Workers = {w1, w2}
    Clients = {c1, c2, c3}
    Owner = c1
    Tasks = {t1, t2, t3, t4, t5}
    Capacity = 2
    MaxBatch = 3
    NoTask = NoTask
SPECIFICATION Spec
SYMMETRY Symmetry
INVARIANTS
    TypeOK
    NoTaskLostOrDoubled
    NoTaskWaitsForASleeper
    NoSubmitterSleepsOnFreeSlot
    NoWaiterSleepsWhenDone
    DestroyDrains
PROPERTIES
    WaitCoversEveryTask
