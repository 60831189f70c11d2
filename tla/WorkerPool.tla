------------------------------ MODULE WorkerPool ------------------------------
(***************************************************************************)
(* The worker pool of src/reader/worker_pool.c: worker threads, a circular *)
(* task queue, one mutex and three condition variables, shared by any      *)
(* number of client threads (one per batch reader that borrows the pool).  *)
(*                                                                         *)
(* Every access to the shared fields is made with the mutex held, so one   *)
(* action is one critical section: from POOL_LOCK, or from the return of a *)
(* wait, to the next POOL_UNLOCK or wait.  A condition variable is the set *)
(* of the threads that sleep on it; a thread that is in none of these sets *)
(* is running or is about to take the mutex.                               *)
(***************************************************************************)
EXTENDS Integers, Sequences, FiniteSets

CONSTANTS Workers,    \* the pool's threads
          Clients,    \* the threads that call the pool's API
          Owner,      \* the client that destroys the pool
          Tasks,      \* the tasks ever submitted (each once)
          Capacity,   \* CARQUET_POOL_QUEUE_CAPACITY
          MaxBatch,   \* bound: the longest args array of one call
          NoTask      \* what a queue slot holds before its first use

ASSUME WorkerPoolAssumption ==
    /\ IsFiniteSet(Workers) /\ Workers # {}
    /\ IsFiniteSet(Clients) /\ Owner \in Clients
    /\ Workers \cap Clients = {}
    /\ Capacity \in Nat \ {0} /\ MaxBatch \in Nat \ {0}
    /\ NoTask \notin Tasks

Slots == 0 .. Capacity - 1

VARIABLES queue, queueHead, queueTail, queueCount,   \* the circular queue
          activeTasks, shutdown,
          workAvailable, workDone, queueNotFull,     \* who sleeps on what
          wpc, task,                                 \* per worker thread
          call, args,                                \* per client thread
          fresh, finished      \* history: never handed over / body has run

ringVars == <<queue, queueHead, queueTail, queueCount>>
vars == <<queue, queueHead, queueTail, queueCount, activeTasks, shutdown,
          workAvailable, workDone, queueNotFull, wpc, task, call, args,
          fresh, finished>>

-------------------------------------------------------------------------------
(* Condition variables and the ring.                                       *)

\* The sets of sleepers that a single wake-up can leave; it is lost when
\* nobody sleeps.  (Waking more than one is SpuriousWake.)
SignalLost(sleepers) == {sleepers}
SignalOne(sleepers) == IF sleepers = {} THEN {{}}
                       ELSE {sleepers \ {t} : t \in sleepers}

\* The slot n places after another, the way from one slot to another, and the
\* ring after the first k of items are written from slot tail on.
SlotAfter(slot, n) == (slot + n) % Capacity
Distance(from, to) == (to - from) % Capacity

PutWithoutWrap(ring, tail, items, k) ==
    [i \in Slots |-> LET d == i - tail
                     IN IF d \in 0 .. k - 1 THEN items[d + 1] ELSE ring[i]]
PutItems(ring, tail, items, k) ==
    [i \in Slots |-> LET d == Distance(tail, i)
                     IN IF d < k THEN items[d + 1] ELSE ring[i]]

QueueFullOffByOne == queueCount > Capacity
QueueFull == queueCount >= Capacity

IdleIgnoringActive == queueCount = 0
AllTasksDone == queueCount = 0 /\ activeTasks = 0

DoneOnlyWhenBusy(active) == active = 0 /\ queueCount > 0
LastTaskDone(active) == active = 0 /\ queueCount = 0

ExitAtOnce == shutdown
MustExit == shutdown /\ queueCount = 0

-------------------------------------------------------------------------------
(* worker_thread_func                                                      *)

WorkerSleep(w) ==
    /\ wpc[w] = "loop" /\ w \notin workAvailable
    /\ queueCount = 0 /\ ~shutdown
    /\ workAvailable' = workAvailable \cup {w}
    /\ UNCHANGED <<ringVars, activeTasks, shutdown, workDone, queueNotFull,
                   wpc, task, call, args, fresh, finished>>

WorkerExit(w) ==
    /\ wpc[w] = "loop" /\ w \notin workAvailable
    /\ MustExit
    /\ wpc' = [wpc EXCEPT ![w] = "exited"]
    /\ UNCHANGED <<ringVars, activeTasks, shutdown, workAvailable, workDone,
                   queueNotFull, task, call, args, fresh, finished>>

WorkerDequeue(w) ==
    /\ wpc[w] = "loop" /\ w \notin workAvailable
    /\ queueCount > 0 /\ ~MustExit
    /\ task' = [task EXCEPT ![w] = queue[queueHead]]
    /\ queueHead' = SlotAfter(queueHead, 1)
    /\ queueCount' = queueCount - 1
    /\ activeTasks' = activeTasks + 1
    /\ queueNotFull' \in SignalOne(queueNotFull)
    /\ wpc' = [wpc EXCEPT ![w] = "run"]
    /\ UNCHANGED <<queue, queueTail, shutdown, workAvailable, workDone,
                   call, args, fresh, finished>>

\* task.fn(task.arg), outside the lock.
WorkerRun(w) ==
    /\ wpc[w] = "run"
    /\ finished' = finished \cup {task[w]}
    /\ wpc' = [wpc EXCEPT ![w] = "finish"]
    /\ UNCHANGED <<ringVars, activeTasks, shutdown, workAvailable, workDone,
                   queueNotFull, task, call, args, fresh>>

WorkerFinish(w) ==
    /\ wpc[w] = "finish"
    /\ activeTasks' = activeTasks - 1
    /\ workDone' = IF LastTaskDone(activeTasks - 1) THEN {} ELSE workDone
    /\ wpc' = [wpc EXCEPT ![w] = "loop"]
    /\ UNCHANGED <<ringVars, shutdown, workAvailable, queueNotFull,
                   task, call, args, fresh, finished>>

-------------------------------------------------------------------------------
(* The API.  A client runs one call at a time; args is what is left of its *)
(* array argument.                                                         *)

Awake(c) == c \notin workDone \cup queueNotFull

\* The argument arrays of a call: tasks nobody has handed over yet.
ArgArrays == {s \in UNION {[1..n -> fresh] : n \in 1..MaxBatch} :
                 \A i, j \in DOMAIN s : s[i] = s[j] => i = j}

Begin(c, op, items) ==
    /\ call[c] = "idle" /\ ~shutdown
    /\ call' = [call EXCEPT ![c] = op]
    /\ args' = [args EXCEPT ![c] = items]
    /\ fresh' = fresh \ {items[i] : i \in DOMAIN items}
    /\ UNCHANGED <<ringVars, activeTasks, shutdown, workAvailable, workDone,
                   queueNotFull, wpc, task, finished>>

CallSubmit(c) == \E t \in fresh : Begin(c, "submit", <<t>>)
CallParallelFor(c) == \E s \in ArgArrays : Begin(c, "parallel_for", s)
CallSubmitBatch(c) == \E s \in ArgArrays : Begin(c, "submit_batch", s)
CallWait(c) == Begin(c, "wait", <<>>)

\* Where a submitting call goes once its last argument is enqueued.
ReturnTo(op) == IF op = "parallel_for" THEN "wait" ELSE "idle"

SubmitBlock(c) ==
    /\ call[c] \in {"submit", "parallel_for"} /\ Awake(c)
    /\ QueueFull
    /\ queueNotFull' = queueNotFull \cup {c}
    /\ UNCHANGED <<ringVars, activeTasks, shutdown, workAvailable, workDone,
                   wpc, task, call, args, fresh, finished>>

SubmitEnqueue(c) ==
    /\ call[c] \in {"submit", "parallel_for"} /\ Awake(c)
    /\ ~QueueFull
    /\ queue' = PutItems(queue, queueTail, args[c], 1)
    /\ queueTail' = SlotAfter(queueTail, 1)
    /\ queueCount' = queueCount + 1
    /\ workAvailable' \in SignalOne(workAvailable)
    /\ args' = [args EXCEPT ![c] = Tail(args[c])]
    /\ call' = [call EXCEPT ![c] = IF Len(args[c]) = 1 THEN ReturnTo(call[c])
                                   ELSE call[c]]
    /\ UNCHANGED <<queueHead, activeTasks, shutdown, workDone, queueNotFull,
                   wpc, task, fresh, finished>>

\* One critical section of submit_batch: fill the queue as far as it goes,
\* wake every worker, and sleep if arguments are left.
SubmitBatch(c) ==
    LET room == Capacity - queueCount
        k    == IF Len(args[c]) <= room THEN Len(args[c]) ELSE room
    IN /\ call[c] = "submit_batch" /\ Awake(c)
       /\ queue' = PutItems(queue, queueTail, args[c], k)
       /\ queueTail' = SlotAfter(queueTail, k)
       /\ queueCount' = queueCount + k
       /\ workAvailable' = {}
       /\ args' = [args EXCEPT ![c] = SubSeq(args[c], k + 1, Len(args[c]))]
       /\ IF k = Len(args[c])
          THEN /\ call' = [call EXCEPT ![c] = ReturnTo(call[c])]
               /\ UNCHANGED queueNotFull
          ELSE /\ queueNotFull' = queueNotFull \cup {c}
               /\ UNCHANGED call
       /\ UNCHANGED <<queueHead, activeTasks, shutdown, workDone, wpc, task,
                      fresh, finished>>

WaitBlock(c) ==
    /\ call[c] = "wait" /\ Awake(c)
    /\ ~AllTasksDone
    /\ workDone' = workDone \cup {c}
    /\ UNCHANGED <<ringVars, activeTasks, shutdown, workAvailable,
                   queueNotFull, wpc, task, call, args, fresh, finished>>

WaitReturn(c) ==
    /\ call[c] = "wait" /\ Awake(c)
    /\ AllTasksDone
    /\ call' = [call EXCEPT ![c] = "idle"]
    /\ UNCHANGED <<ringVars, activeTasks, shutdown, workAvailable, workDone,
                   queueNotFull, wpc, task, args, fresh, finished>>

\* A client that borrowed the pool stops using it.
Leave(c) ==
    /\ c # Owner /\ call[c] = "idle"
    /\ call' = [call EXCEPT ![c] = "gone"]
    /\ UNCHANGED <<ringVars, activeTasks, shutdown, workAvailable, workDone,
                   queueNotFull, wpc, task, args, fresh, finished>>

\* carquet_worker_pool_destroy: only when no other client uses the pool.
Destroy ==
    /\ call[Owner] = "idle"
    /\ \A c \in Clients \ {Owner} : call[c] = "gone"
    /\ shutdown' = TRUE
    /\ workAvailable' = {}
    /\ call' = [call EXCEPT ![Owner] = "join"]
    /\ UNCHANGED <<ringVars, activeTasks, workDone, queueNotFull, wpc, task,
                   args, fresh, finished>>

\* pthread_join of every thread, then the pool is freed.
JoinAll ==
    /\ call[Owner] = "join"
    /\ \A w \in Workers : wpc[w] = "exited"
    /\ call' = [call EXCEPT ![Owner] = "gone"]
    /\ UNCHANGED <<ringVars, activeTasks, shutdown, workAvailable, workDone,
                   queueNotFull, wpc, task, args, fresh, finished>>

\* pthread_cond_wait may return without a signal.
SpuriousWake(t) ==
    /\ t \in workAvailable \cup workDone \cup queueNotFull
    /\ workAvailable' = workAvailable \ {t}
    /\ workDone' = workDone \ {t}
    /\ queueNotFull' = queueNotFull \ {t}
    /\ UNCHANGED <<ringVars, activeTasks, shutdown, wpc, task, call, args,
                   fresh, finished>>

-------------------------------------------------------------------------------
Init ==
    /\ queue = [i \in Slots |-> NoTask]
    /\ queueHead = 0 /\ queueTail = 0 /\ queueCount = 0
    /\ activeTasks = 0 /\ shutdown = FALSE
    /\ workAvailable = {} /\ workDone = {} /\ queueNotFull = {}
    /\ wpc = [w \in Workers |-> "loop"]
    /\ task = [w \in Workers |-> NoTask]
    /\ call = [c \in Clients |-> "idle"]
    /\ args = [c \in Clients |-> <<>>]
    /\ fresh = Tasks /\ finished = {}

WorkerStep(w) == \/ WorkerSleep(w) \/ WorkerExit(w) \/ WorkerDequeue(w)
                 \/ WorkerRun(w) \/ WorkerFinish(w)

\* The steps of a client that is inside a call.
CallStep(c) == \/ SubmitBlock(c) \/ SubmitEnqueue(c) \/ SubmitBatch(c)
               \/ WaitBlock(c) \/ WaitReturn(c)

ClientBegins(c) == \/ CallSubmit(c) \/ CallParallelFor(c)
                   \/ CallSubmitBatch(c) \/ CallWait(c) \/ Leave(c)

\* The process may stop using the pool at any point at which nothing is due.
AllStopped == call[Owner] = "gone" /\ UNCHANGED vars

Next == \/ \E w \in Workers : WorkerStep(w)
        \/ \E c \in Clients : CallStep(c) \/ ClientBegins(c)
        \/ Destroy
        \/ JoinAll
        \/ \E t \in Workers \cup Clients : SpuriousWake(t)
        \/ AllStopped

\* A thread that can take the mutex, or runs a task, eventually does; nobody
\* is obliged to begin a call.
Fairness == /\ \A w \in Workers : WF_vars(WorkerStep(w))
            /\ \A c \in Clients : WF_vars(CallStep(c))
            /\ WF_vars(JoinAll)

Spec == Init /\ [][Next]_vars
FairSpec == Spec /\ Fairness

-------------------------------------------------------------------------------
(* Properties.                                                             *)

\* The i-th oldest task of the queue, and the tasks in each place.
QueuedAt(i) == queue[SlotAfter(queueHead, i)]
Queued == {QueuedAt(i) : i \in 0 .. queueCount - 1}
InArgs(c) == {args[c][i] : i \in DOMAIN args[c]}
Running == {task[w] : w \in {v \in Workers : wpc[v] = "run"}}
HandedOver == Tasks \ (fresh \cup UNION {InArgs(c) : c \in Clients})

\* Every field and every thread's state has the values the C types allow.
TypeOK ==
    /\ queue \in [Slots -> Tasks \cup {NoTask}]
    /\ queueHead \in Slots /\ queueTail \in Slots
    /\ queueCount \in 0 .. Capacity
    /\ activeTasks \in 0 .. Cardinality(Workers) /\ shutdown \in BOOLEAN
    /\ workAvailable \subseteq Workers
    /\ workDone \subseteq Clients /\ queueNotFull \subseteq Clients
    /\ wpc \in [Workers -> {"loop", "run", "finish", "exited"}]
    /\ task \in [Workers -> Tasks \cup {NoTask}]
    /\ call \in [Clients -> {"idle", "submit", "parallel_for", "submit_batch",
                             "wait", "join", "gone"}]
    /\ args \in [Clients -> Seq(Tasks)]
    /\ fresh \subseteq Tasks /\ finished \subseteq Tasks

\* A task that was handed over is in exactly one place: the queue, one worker,
\* or done.  No slot is overwritten before its task was taken, no task is
\* taken twice, none is forgotten when the ring wraps (worker_thread_func's
\* dequeue against the three enqueueing calls).
NoTaskLostOrDoubled ==
    /\ \A i, j \in 0 .. queueCount - 1 : QueuedAt(i) = QueuedAt(j) => i = j
    /\ \A v, w \in Workers :
           wpc[v] = "run" /\ wpc[w] = "run" /\ task[v] = task[w] => v = w
    /\ Queued \cap (Running \cup finished) = {} /\ Running \cap finished = {}
    /\ HandedOver = Queued \cup Running \cup finished

\* No lost wake-up on work_available: while some worker sleeps, every queued
\* task has an awake worker of its own that is about to look at the queue,
\* although submit signals one worker only.
NoTaskWaitsForASleeper ==
    workAvailable # {} =>
        queueCount <= Cardinality({w \in Workers \ workAvailable : wpc[w] = "loop"})

\* No lost wake-up on queue_not_full: while some submitter sleeps, there are
\* no more free slots than awake submitters, although each dequeue signals
\* one submitter only.
NoSubmitterSleepsOnFreeSlot ==
    queueNotFull # {} =>
        Capacity - queueCount <=
            Cardinality({c \in Clients : /\ Awake(c)
                                         /\ call[c] \in {"submit", "parallel_for",
                                                         "submit_batch"}})

\* No lost wake-up on work_done: a sleeping waiter always has a task left
\* whose completion wakes it.
NoWaiterSleepsWhenDone == workDone # {} => queueCount > 0 \/ activeTasks > 0

\* carquet_worker_pool_wait returns only when every task handed over by then,
\* by any client of the shared pool, has run.
WaitCoversEveryTask ==
    [][\A c \in Clients : call[c] = "wait" /\ call'[c] = "idle"
          => HandedOver \subseteq finished]_vars

\* carquet_worker_pool_destroy drains the queue: when the pool is freed, every
\* task handed over has run and no thread is left that could touch the pool.
DestroyDrains ==
    call[Owner] = "gone" =>
        /\ HandedOver \subseteq finished
        /\ \A w \in Workers : wpc[w] = "exited"

\* Every call of the API returns (the waits of other clients, a full queue and
\* shutdown included).
CallsReturn == \A c \in Clients : call[c] # "idle" ~> call[c] \in {"idle", "gone"}

\* The pool implements TaskPool: first in, first out, each task once, all of
\* them finished.
Promise == INSTANCE TaskPool WITH
    pending <- [i \in 1 .. queueCount |-> QueuedAt(i - 1)],
    running <- Running,
    closed  <- call[Owner] = "gone"

ImplementsTaskPool == Promise!PoolSpec
===============================================================================
