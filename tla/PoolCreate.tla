------------------------------ MODULE PoolCreate ------------------------------
(***************************************************************************)
(* carquet_worker_pool_create when pthread_create may fail.  The failure   *)
(* path sets shutdown and broadcasts WITHOUT taking the mutex, so here a   *)
(* worker's critical section is not one step: it is split where the        *)
(* creating thread can come between.  Nothing is ever submitted, so the    *)
(* queue is empty throughout.                                              *)
(***************************************************************************)
EXTENDS Naturals

CONSTANT NumThreads   \* a positive number

Workers == 0 .. NumThreads - 1

VARIABLES created,        \* i of the loop: threads 0 .. created - 1 exist
          cpc,            \* the creating thread
          wpc,            \* the worker threads
          workAvailable,  \* the workers that sleep on work_available
          shutdown

vars == <<created, cpc, wpc, workAvailable, shutdown>>

Init == /\ created = 0
        /\ cpc = "spawn"
        /\ wpc = [w \in Workers |-> "none"]
        /\ workAvailable = {}
        /\ shutdown = FALSE

-------------------------------------------------------------------------------
(* The creating thread.                                                    *)

SpawnThread ==
    /\ cpc = "spawn" /\ created < NumThreads
    /\ wpc' = [wpc EXCEPT ![created] = "lock"]
    /\ created' = created + 1
    /\ UNCHANGED <<cpc, workAvailable, shutdown>>

ReturnPool ==
    /\ cpc = "spawn" /\ created = NumThreads
    /\ cpc' = "pool"
    /\ UNCHANGED <<created, wpc, workAvailable, shutdown>>

\* pthread_create fails: shutdown = true, no lock taken.
SpawnFails ==
    /\ cpc = "spawn" /\ created < NumThreads
    /\ shutdown' = TRUE
    /\ cpc' = "broadcast"
    /\ UNCHANGED <<created, wpc, workAvailable>>

BroadcastShutdown ==
    /\ cpc = "broadcast"
    /\ workAvailable' = {}
    /\ cpc' = "join"
    /\ UNCHANGED <<created, wpc, shutdown>>

\* pthread_join of the threads created so far, then return NULL.
JoinCreated ==
    /\ cpc = "join"
    /\ \A w \in 0 .. created - 1 : wpc[w] = "exited"
    /\ cpc' = "null"
    /\ UNCHANGED <<created, wpc, workAvailable, shutdown>>

-------------------------------------------------------------------------------
(* worker_thread_func with an empty queue.                                 *)

MutexFree == \A w \in Workers : wpc[w] \notin {"test", "sleep", "leave"}

WorkerLock(w) ==
    /\ wpc[w] = "lock" /\ w \notin workAvailable
    /\ MutexFree
    /\ wpc' = [wpc EXCEPT ![w] = "test"]
    /\ UNCHANGED <<created, cpc, workAvailable, shutdown>>

\* while (queue_count == 0 && !shutdown)
WorkerTest(w) ==
    /\ wpc[w] = "test"
    /\ wpc' = [wpc EXCEPT ![w] = IF shutdown THEN "leave" ELSE "sleep"]
    /\ UNCHANGED <<created, cpc, workAvailable, shutdown>>

\* pthread_cond_wait: atomically release the mutex and sleep.
WorkerSleep(w) ==
    /\ wpc[w] = "sleep"
    /\ workAvailable' = workAvailable \cup {w}
    /\ wpc' = [wpc EXCEPT ![w] = "lock"]
    /\ UNCHANGED <<created, cpc, shutdown>>

WorkerExit(w) ==
    /\ wpc[w] = "leave"
    /\ wpc' = [wpc EXCEPT ![w] = "exited"]
    /\ UNCHANGED <<created, cpc, workAvailable, shutdown>>

\* pthread_cond_wait may return without a signal, but need not.
SpuriousWake(w) ==
    /\ w \in workAvailable
    /\ workAvailable' = workAvailable \ {w}
    /\ UNCHANGED <<created, cpc, wpc, shutdown>>

-------------------------------------------------------------------------------
CreatorStep == \/ SpawnThread \/ ReturnPool \/ SpawnFails
               \/ BroadcastShutdown \/ JoinCreated

WorkerStep(w) == \/ WorkerLock(w) \/ WorkerTest(w)
                 \/ WorkerSleep(w) \/ WorkerExit(w)

Next == CreatorStep \/ \E w \in Workers : WorkerStep(w) \/ SpuriousWake(w)

Spec == /\ Init /\ [][Next]_vars
        /\ WF_vars(CreatorStep)
        /\ \A w \in Workers : SF_vars(WorkerStep(w))

\* worker_pool.h: "Returns NULL on failure."  Creation comes to an end, with
\* a pool or with NULL.
CreateReturns == <>(cpc \in {"pool", "null"})
===============================================================================
