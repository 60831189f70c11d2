------------------------------- MODULE TaskPool -------------------------------
(***************************************************************************)
(* What a worker pool promises its clients, without threads, locks or      *)
(* condition variables: tasks are started in the order in which they were  *)
(* submitted, each at most once, every submitted task is finished, and a   *)
(* pool that is closed has nothing left to do.                             *)
(***************************************************************************)
EXTENDS Naturals, Sequences, FiniteSets

CONSTANT Tasks

VARIABLES pending,   \* submitted and not yet started, oldest first
          running,   \* started and not yet finished
          finished,  \* finished
          closed     \* the pool is gone

poolVars == <<pending, running, finished, closed>>

PendingSet == {pending[i] : i \in DOMAIN pending}

PoolInit == /\ pending = <<>>
            /\ running = {}
            /\ finished = {}
            /\ closed = FALSE

\* A client hands over tasks the pool has never seen.
SubmitAll(items) ==
    /\ ~closed
    /\ \A i \in DOMAIN items : items[i] \notin PendingSet \cup running \cup finished
    /\ pending' = pending \o items
    /\ UNCHANGED <<running, finished, closed>>

StartOldest ==
    /\ pending # <<>>
    /\ running' = running \cup {Head(pending)}
    /\ pending' = Tail(pending)
    /\ UNCHANGED <<finished, closed>>

FinishTask(t) ==
    /\ t \in running
    /\ running' = running \ {t}
    /\ finished' = finished \cup {t}
    /\ UNCHANGED <<pending, closed>>

Close ==
    /\ pending = <<>> /\ running = {}
    /\ closed' = TRUE
    /\ UNCHANGED <<pending, running, finished>>

\* An uninterrupted stretch of a submission enqueues distinct tasks.
Submissions == {s \in UNION {[1..n -> Tasks] : n \in 1..Cardinality(Tasks)} :
                   \A i, j \in DOMAIN s : s[i] = s[j] => i = j}

PoolNext == \/ \E s \in Submissions : SubmitAll(s)
            \/ StartOldest
            \/ \E t \in Tasks : FinishTask(t)
            \/ Close

PoolFairness == /\ WF_poolVars(StartOldest)
                /\ \A t \in Tasks : WF_poolVars(FinishTask(t))

PoolSafeSpec == PoolInit /\ [][PoolNext]_poolVars
PoolSpec == PoolSafeSpec /\ PoolFairness
===============================================================================
