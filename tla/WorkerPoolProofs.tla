--------------------------- MODULE WorkerPoolProofs ---------------------------
(* Theorems about WorkerPool, for any number of workers, clients and tasks *)
(* and any queue capacity.                                                 *)
EXTENDS WorkerPool, FiniteSetTheorems, SequenceTheorems, TLAPS

USE WorkerPoolAssumption

-------------------------------------------------------------------------------
(* Arithmetic of the ring.                                                 *)

\* A slot number wraps at most once.
LEMMA SlotAfterWraps ==
    ASSUME NEW h \in Slots, NEW n \in 0 .. Capacity
    PROVE  /\ SlotAfter(h, n) \in Slots
           /\ SlotAfter(h, n) = IF h + n < Capacity THEN h + n ELSE h + n - Capacity
BY DEF SlotAfter, Slots

LEMMA DistanceWraps ==
    ASSUME NEW t \in Slots, NEW i \in Slots
    PROVE  /\ Distance(t, i) = IF i >= t THEN i - t ELSE i - t + Capacity
           /\ Distance(t, i) \in 0 .. Capacity - 1
BY DEF Distance, Slots

\* Going m places and then n is going m + n places.
LEMMA SlotAfterAdds ==
    ASSUME NEW h \in Slots, NEW m \in 0 .. Capacity, NEW n \in 0 .. Capacity,
           m + n <= Capacity
    PROVE  SlotAfter(SlotAfter(h, m), n) = SlotAfter(h, m + n)
<1>1. m + n \in 0 .. Capacity /\ SlotAfter(h, m) \in Slots
  BY SlotAfterWraps
<1>2. SlotAfter(SlotAfter(h, m), n) =
        IF SlotAfter(h, m) + n < Capacity THEN SlotAfter(h, m) + n
        ELSE SlotAfter(h, m) + n - Capacity
  BY <1>1, SlotAfterWraps
<1>3. SlotAfter(h, m + n) = IF h + (m + n) < Capacity THEN h + (m + n)
                            ELSE h + (m + n) - Capacity
  BY <1>1, SlotAfterWraps
<1>4. SlotAfter(h, m) = IF h + m < Capacity THEN h + m ELSE h + m - Capacity
  BY SlotAfterWraps
<1>5. QED BY <1>1, <1>2, <1>3, <1>4 DEF Slots

\* The way from the n-th to the i-th slot after slot h.
LEMMA RingDistance ==
    ASSUME NEW h \in Slots, NEW n \in 0 .. Capacity, NEW i \in 0 .. Capacity - 1
    PROVE  Distance(SlotAfter(h, n), SlotAfter(h, i)) =
              IF i >= n THEN i - n ELSE i - n + Capacity
<1> DEFINE a == SlotAfter(h, i)
           t == SlotAfter(h, n)
<1>1. /\ h \in Nat /\ h < Capacity
      /\ n \in Nat /\ n <= Capacity /\ i \in Nat /\ i < Capacity
  BY DEF Slots
<1>2. a \in Slots /\ a = IF h + i < Capacity THEN h + i ELSE h + i - Capacity
  BY <1>1, SlotAfterWraps
<1>3. t \in Slots /\ t = IF h + n < Capacity THEN h + n ELSE h + n - Capacity
  BY <1>1, SlotAfterWraps
<1>4. Distance(t, a) = IF a >= t THEN a - t ELSE a - t + Capacity
  BY <1>2, <1>3, DistanceWraps
<1> HIDE DEF a, t
<1>5. Distance(t, a) = IF i >= n THEN i - n ELSE i - n + Capacity
  <2>1. CASE h + i < Capacity /\ h + n < Capacity
    BY <1>1, <1>2, <1>3, <1>4, <2>1
  <2>2. CASE h + i < Capacity /\ ~(h + n < Capacity)
    BY <1>1, <1>2, <1>3, <1>4, <2>2
  <2>3. CASE ~(h + i < Capacity) /\ h + n < Capacity
    BY <1>1, <1>2, <1>3, <1>4, <2>3
  <2>4. CASE ~(h + i < Capacity) /\ ~(h + n < Capacity)
    BY <1>1, <1>2, <1>3, <1>4, <2>4
  <2>5. QED BY <2>1, <2>2, <2>3, <2>4
<1>6. QED BY <1>5 DEF a, t

\* The tasks of an arguments array once its first k are enqueued.
LEMMA DropFront ==
    ASSUME NEW s \in Seq(Tasks), NEW k \in 0 .. Len(s)
    PROVE  LET r == SubSeq(s, k + 1, Len(s))
           IN /\ r \in Seq(Tasks)
              /\ Len(r) = Len(s) - k
              /\ \A i \in 1 .. Len(s) - k : r[i] = s[k + i]
OBVIOUS

\* Tail is the same with k = 1.
LEMMA TailDropsOne ==
    ASSUME NEW s \in Seq(Tasks), s # <<>>
    PROVE  /\ Tail(s) \in Seq(Tasks)
           /\ Len(s) \in Nat \ {0}
           /\ Len(Tail(s)) = Len(s) - 1
           /\ \A i \in 1 .. Len(s) - 1 : Tail(s)[i] = s[i + 1]
OBVIOUS

-------------------------------------------------------------------------------
(* The inductive invariant.                                                *)

\* The workers between their dequeue and the decrement of active_tasks.
Busy == {w \in Workers : wpc[w] \in {"run", "finish"}}

\* The queue is a window of queue_count tasks that ends at the tail.
RingTypes ==
    /\ queue \in [Slots -> Tasks \cup {NoTask}]
    /\ queueHead \in Slots /\ queueTail \in Slots
    /\ queueCount \in 0 .. Capacity
    /\ queueTail = SlotAfter(queueHead, queueCount)
    /\ \A i \in 0 .. queueCount - 1 : QueuedAt(i) \in Tasks

\* A client that is not inside a submitting call.
NoArgs(c) == call[c] \notin {"submit", "parallel_for", "submit_batch"}

\* TypeOK for the rest, with the exact value of active_tasks: the number of
\* threads between their dequeue and their decrement.
ThreadTypes ==
    /\ activeTasks = Cardinality(Busy) /\ shutdown \in BOOLEAN
    /\ workAvailable \subseteq Workers
    /\ workDone \subseteq Clients /\ queueNotFull \subseteq Clients
    /\ wpc \in [Workers -> {"loop", "run", "finish", "exited"}]
    /\ task \in [Workers -> Tasks \cup {NoTask}]
    /\ call \in [Clients -> {"idle", "submit", "parallel_for", "submit_batch",
                             "wait", "join", "gone"}]
    /\ args \in [Clients -> Seq(Tasks)]
    /\ fresh \subseteq Tasks /\ finished \subseteq Tasks
    /\ \A w \in Workers : wpc[w] = "run" => task[w] \in Tasks
    /\ \A c \in Clients : call[c] \in {"submit", "parallel_for", "submit_batch"}
                           => args[c] # <<>>

Types == RingTypes /\ ThreadTypes

\* Busy is finite, and one worker joining or leaving it counts as one.
LEMMA BusyCounts ==
    ASSUME NEW S \in SUBSET Workers, NEW w \in Workers
    PROVE  /\ IsFiniteSet(S)
           /\ Cardinality(S) \in 0 .. Cardinality(Workers)
           /\ w \notin S => Cardinality(S \cup {w}) = Cardinality(S) + 1
           /\ w \in S => Cardinality(S \ {w}) = Cardinality(S) - 1
<1>1. IsFiniteSet(S) /\ Cardinality(S) <= Cardinality(Workers)
  BY FS_Subset
<1>2. Cardinality(S) \in Nat /\ Cardinality(Workers) \in Nat
  BY <1>1, FS_CardinalityType
<1>3. w \notin S => Cardinality(S \cup {w}) = Cardinality(S) + 1
  BY <1>1, FS_AddElement
<1>4. w \in S => Cardinality(S \ {w}) = Cardinality(S) - 1
  BY <1>1, FS_RemoveElement
<1>5. QED BY <1>1, <1>2, <1>3, <1>4

\* What an enqueueing critical section does to the queue: the old tasks keep
\* their places and the first k of s follow them.
LEMMA EnqueueAppends ==
    ASSUME RingTypes, NEW s \in Seq(Tasks),
           NEW k \in 0 .. Capacity - queueCount, k <= Len(s),
           queue' = PutItems(queue, queueTail, s, k),
           queueTail' = SlotAfter(queueTail, k),
           queueCount' = queueCount + k,
           queueHead' = queueHead
    PROVE  /\ queue' \in [Slots -> Tasks \cup {NoTask}]
           /\ queueCount' \in 0 .. Capacity
           /\ queueTail' \in Slots
           /\ queueTail' = SlotAfter(queueHead', queueCount')
           /\ \A i \in 0 .. queueCount - 1 : QueuedAt(i)' = QueuedAt(i)
           /\ \A i \in queueCount .. queueCount + k - 1 :
                 QueuedAt(i)' = s[i - queueCount + 1]
<1>1. /\ queueHead \in Slots /\ queueTail \in Slots
      /\ queueTail = SlotAfter(queueHead, queueCount)
      /\ queueCount \in 0 .. Capacity /\ queueCount + k \in 0 .. Capacity
      /\ k \in 0 .. Capacity /\ Len(s) \in Nat
  BY DEF RingTypes
<1>2. /\ queueCount' \in 0 .. Capacity
      /\ queueTail' \in Slots
      /\ queueTail' = SlotAfter(queueHead', queueCount')
  BY <1>1, SlotAfterWraps, SlotAfterAdds
<1>3. \A i \in Slots : queue'[i] = IF Distance(queueTail, i) < k
                                  THEN s[Distance(queueTail, i) + 1]
                                  ELSE queue[i]
  BY DEF PutItems
<1>4. queue' \in [Slots -> Tasks \cup {NoTask}]
  <2>1. ASSUME NEW i \in Slots PROVE queue'[i] \in Tasks \cup {NoTask}
    <3>1. Distance(queueTail, i) \in 0 .. Capacity - 1
      BY <1>1, DistanceWraps
    <3>2. CASE Distance(queueTail, i) < k
      BY <1>1, <1>3, <3>1, <3>2
    <3>3. CASE ~(Distance(queueTail, i) < k)
      BY <1>3, <3>3 DEF RingTypes
    <3>4. QED BY <3>2, <3>3
  <2>2. QED BY <2>1 DEF PutItems
<1>5. ASSUME NEW i \in 0 .. queueCount + k - 1
      PROVE  /\ SlotAfter(queueHead, i) \in Slots
             /\ Distance(queueTail, SlotAfter(queueHead, i)) =
                   IF i >= queueCount THEN i - queueCount
                   ELSE i - queueCount + Capacity
  <2>1. i \in 0 .. Capacity - 1 /\ i \in 0 .. Capacity
    BY <1>1
  <2>2. QED BY <1>1, <2>1, RingDistance, SlotAfterWraps
<1>6. ASSUME NEW i \in 0 .. queueCount - 1
      PROVE  QueuedAt(i)' = QueuedAt(i)
  <2>1. i \in 0 .. queueCount + k - 1 /\ ~(i >= queueCount)
    BY <1>1
  <2>2. ~(Distance(queueTail, SlotAfter(queueHead, i)) < k)
    BY <1>1, <1>5, <2>1
  <2>3. QED BY <1>3, <1>5, <2>1, <2>2 DEF QueuedAt
<1>7. ASSUME NEW i \in queueCount .. queueCount + k - 1
      PROVE  QueuedAt(i)' = s[i - queueCount + 1]
  <2>1. i \in 0 .. queueCount + k - 1 /\ i >= queueCount /\ i - queueCount < k
    BY <1>1
  <2>2. Distance(queueTail, SlotAfter(queueHead, i)) = i - queueCount
    BY <1>5, <2>1
  <2>3. QED BY <1>3, <1>5, <2>1, <2>2 DEF QueuedAt
<1>8. QED BY <1>2, <1>4, <1>6, <1>7

\* What a dequeue does: the oldest task leaves and the others move up.
LEMMA DequeueShifts ==
    ASSUME RingTypes, queueCount > 0,
           queue' = queue, queueTail' = queueTail,
           queueHead' = SlotAfter(queueHead, 1),
           queueCount' = queueCount - 1
    PROVE  /\ queueHead' \in Slots
           /\ queueCount' \in 0 .. Capacity
           /\ queueTail' = SlotAfter(queueHead', queueCount')
           /\ queue[queueHead] = QueuedAt(0)
           /\ \A i \in 0 .. queueCount - 2 : QueuedAt(i)' = QueuedAt(i + 1)
<1>1. /\ queueHead \in Slots /\ queueCount \in 1 .. Capacity
      /\ queueTail = SlotAfter(queueHead, queueCount)
  BY DEF RingTypes
<1>2. queueHead' \in Slots /\ queueCount' \in 0 .. Capacity
  BY <1>1, SlotAfterWraps
<1>3. ASSUME NEW i \in 0 .. queueCount - 1
      PROVE  SlotAfter(queueHead', i) = SlotAfter(queueHead, i + 1)
  <2>1. /\ 1 \in 0 .. Capacity /\ i \in 0 .. Capacity /\ 1 + i <= Capacity
        /\ 1 + i = i + 1
    BY <1>1
  <2>2. QED BY <1>1, <2>1, SlotAfterAdds
<1>4. queueTail' = SlotAfter(queueHead', queueCount')
  <2>1. queueCount - 1 \in 0 .. queueCount - 1 /\ (queueCount - 1) + 1 = queueCount
    BY <1>1
  <2>2. QED BY <1>1, <1>3, <2>1
<1>5. queue[queueHead] = QueuedAt(0)
  <2>1. SlotAfter(queueHead, 0) = queueHead
    BY <1>1, SlotAfterWraps DEF Slots
  <2>2. QED BY <2>1 DEF QueuedAt
<1>6. ASSUME NEW i \in 0 .. queueCount - 2
      PROVE  QueuedAt(i)' = QueuedAt(i + 1)
  <2>1. i \in 0 .. queueCount - 1
    BY <1>1
  <2>2. QED BY <1>3, <2>1 DEF QueuedAt
<1>7. QED BY <1>2, <1>4, <1>5, <1>6

\* The queue of a step that does not touch it.
LEMMA RingStutters ==
    ASSUME UNCHANGED ringVars
    PROVE  /\ RingTypes => RingTypes'
           /\ \A i : QueuedAt(i)' = QueuedAt(i)
           /\ Queued' = Queued
BY DEF ringVars, RingTypes, QueuedAt, Queued, Slots, SlotAfter

-------------------------------------------------------------------------------
(* Types is inductive by itself.                                           *)

LEMMA TypesInit == Init => Types
<1> SUFFICES ASSUME Init PROVE Types
  OBVIOUS
<1>1. RingTypes
  BY DEF Init, RingTypes, Slots, SlotAfter
<1>2. ThreadTypes
  <2>1. Busy = {}
    BY DEF Init, Busy
  <2>2. activeTasks = Cardinality(Busy)
    BY <2>1, FS_EmptySet DEF Init
  <2>3. args \in [Clients -> Seq(Tasks)]
    BY DEF Init
  <2>4. QED BY <2>2, <2>3 DEF Init, ThreadTypes
<1>3. QED BY <1>1, <1>2 DEF Types

LEMMA RingTypesStep == Types /\ [Next]_vars => RingTypes'
<1> SUFFICES ASSUME Types, [Next]_vars PROVE RingTypes'
  OBVIOUS
<1> USE DEF Types
<1>1. CASE UNCHANGED ringVars
  BY <1>1, RingStutters
<1>2. ASSUME NEW w \in Workers, WorkerDequeue(w) PROVE RingTypes'
  <2>1. queueCount > 0 /\ queueCount \in Nat
    BY <1>2 DEF WorkerDequeue, RingTypes
  <2>2. /\ queueHead' \in Slots /\ queueCount' \in 0 .. Capacity
        /\ queueTail' = SlotAfter(queueHead', queueCount')
        /\ \A i \in 0 .. queueCount - 2 : QueuedAt(i)' = QueuedAt(i + 1)
    BY <1>2, <2>1, DequeueShifts DEF WorkerDequeue
  <2>3. ASSUME NEW i \in 0 .. queueCount' - 1 PROVE QueuedAt(i)' \in Tasks
    <3>1. i \in 0 .. queueCount - 2 /\ i + 1 \in 0 .. queueCount - 1
      BY <1>2, <2>1 DEF WorkerDequeue
    <3>2. QED BY <2>2, <3>1 DEF RingTypes
  <2>4. QED BY <1>2, <2>2, <2>3 DEF WorkerDequeue, RingTypes
<1>3. ASSUME NEW s \in Seq(Tasks), NEW k \in 0 .. Capacity - queueCount, k <= Len(s),
             queue' = PutItems(queue, queueTail, s, k),
             queueTail' = SlotAfter(queueTail, k),
             queueCount' = queueCount + k, queueHead' = queueHead
      PROVE  RingTypes'
  <2>1. /\ queue' \in [Slots -> Tasks \cup {NoTask}]
        /\ queueCount' \in 0 .. Capacity /\ queueTail' \in Slots
        /\ queueTail' = SlotAfter(queueHead', queueCount')
        /\ \A i \in 0 .. queueCount - 1 : QueuedAt(i)' = QueuedAt(i)
        /\ \A i \in queueCount .. queueCount + k - 1 :
              QueuedAt(i)' = s[i - queueCount + 1]
    BY <1>3, EnqueueAppends
  <2>2. ASSUME NEW i \in 0 .. queueCount' - 1 PROVE QueuedAt(i)' \in Tasks
    <3>1. queueCount \in Nat /\ k \in Nat /\ Len(s) \in Nat
      BY DEF RingTypes
    <3>2. CASE i < queueCount
      BY <2>1, <3>1, <3>2 DEF RingTypes
    <3>3. CASE i >= queueCount
      <4>1. i \in queueCount .. queueCount + k - 1 /\ i - queueCount + 1 \in 1 .. Len(s)
        BY <1>3, <3>1, <3>3
      <4>2. QED BY <2>1, <4>1
    <3>4. QED BY <3>1, <3>2, <3>3
  <2>3. QED BY <1>3, <2>1, <2>2 DEF RingTypes
<1>4. ASSUME NEW c \in Clients, SubmitEnqueue(c) PROVE RingTypes'
  <2>1. /\ args[c] \in Seq(Tasks) /\ args[c] # <<>>
        /\ queueCount \in 0 .. Capacity /\ queueCount < Capacity
    BY <1>4 DEF SubmitEnqueue, QueueFull, ThreadTypes, RingTypes
  <2>2. 1 \in 0 .. Capacity - queueCount /\ 1 <= Len(args[c])
    BY <2>1
  <2>3. QED BY <1>3, <1>4, <2>1, <2>2 DEF SubmitEnqueue
<1>5. ASSUME NEW c \in Clients, SubmitBatch(c) PROVE RingTypes'
  <2> DEFINE room == Capacity - queueCount
             k    == IF Len(args[c]) <= room THEN Len(args[c]) ELSE room
  <2>1. args[c] \in Seq(Tasks) /\ queueCount \in 0 .. Capacity
    BY DEF ThreadTypes, RingTypes
  <2>2. k \in 0 .. Capacity - queueCount /\ k <= Len(args[c])
    BY <2>1
  <2>3. /\ queue' = PutItems(queue, queueTail, args[c], k)
        /\ queueTail' = SlotAfter(queueTail, k)
        /\ queueCount' = queueCount + k /\ queueHead' = queueHead
    BY <1>5 DEF SubmitBatch
  <2> HIDE DEF k
  <2>4. QED BY <1>3, <2>1, <2>2, <2>3
<1>6. QED
  BY <1>1, <1>2, <1>4, <1>5 DEF Next, WorkerStep, CallStep, ClientBegins, vars, ringVars,
     WorkerSleep, WorkerExit, WorkerRun, WorkerFinish, Begin, CallSubmit,
     CallParallelFor, CallSubmitBatch, CallWait, SubmitBlock, WaitBlock,
     WaitReturn, Leave, Destroy, JoinAll, SpuriousWake, AllStopped

LEMMA ThreadTypesStep == Types /\ [Next]_vars => ThreadTypes'
<1> SUFFICES ASSUME Types, [Next]_vars PROVE ThreadTypes'
  OBVIOUS
<1>t. ThreadTypes /\ RingTypes
  BY DEF Types
<1>1. ASSUME NEW w \in Workers, WorkerStep(w) PROVE ThreadTypes'
  <2>1. CASE WorkerSleep(w)
    BY <1>t, <2>1 DEF WorkerSleep, ThreadTypes, Busy
  <2>2. CASE WorkerExit(w)
    <3>1. Busy' = Busy
      BY <1>t, <2>2 DEF WorkerExit, ThreadTypes, Busy
    <3>2. QED BY <1>t, <2>2, <3>1 DEF WorkerExit, ThreadTypes
  <2>3. CASE WorkerDequeue(w)
    <3>1. w \notin Busy /\ Busy' = Busy \cup {w} /\ Busy \in SUBSET Workers
      BY <1>t, <2>3 DEF WorkerDequeue, ThreadTypes, Busy
    <3>2. activeTasks' = Cardinality(Busy')
      BY <1>t, <2>3, <3>1, BusyCounts DEF WorkerDequeue, ThreadTypes
    <3>3. queue[queueHead] \in Tasks
      <4>1. queueCount \in Nat /\ queueCount > 0 /\ queue[queueHead] = QueuedAt(0)
        BY <1>t, <2>3, DequeueShifts DEF WorkerDequeue, RingTypes
      <4>2. QED BY <1>t, <4>1 DEF RingTypes
    <3>4. queueNotFull' \subseteq Clients
      BY <1>t, <2>3 DEF WorkerDequeue, SignalOne, ThreadTypes
    <3>5. QED BY <1>t, <2>3, <3>2, <3>3, <3>4 DEF WorkerDequeue, ThreadTypes
  <2>4. CASE WorkerRun(w)
    <3>1. Busy' = Busy
      BY <1>t, <2>4 DEF WorkerRun, ThreadTypes, Busy
    <3>2. QED BY <1>t, <2>4, <3>1 DEF WorkerRun, ThreadTypes
  <2>5. CASE WorkerFinish(w)
    <3>1. w \in Busy /\ Busy' = Busy \ {w} /\ Busy \in SUBSET Workers
      BY <1>t, <2>5 DEF WorkerFinish, ThreadTypes, Busy
    <3>2. activeTasks' = Cardinality(Busy')
      BY <1>t, <2>5, <3>1, BusyCounts DEF WorkerFinish, ThreadTypes
    <3>3. QED BY <1>t, <2>5, <3>2 DEF WorkerFinish, ThreadTypes
  <2>6. QED BY <1>1, <2>1, <2>2, <2>3, <2>4, <2>5 DEF WorkerStep
<1>2. ASSUME UNCHANGED <<activeTasks, wpc>> PROVE activeTasks' = Cardinality(Busy')
  BY <1>t, <1>2 DEF ThreadTypes, Busy
<1>3. ASSUME NEW c \in Clients, NEW op \in {"submit", "parallel_for", "submit_batch", "wait"},
             NEW s \in Seq(Tasks), op # "wait" => s # <<>>, Begin(c, op, s)
      PROVE  ThreadTypes'
  BY <1>t, <1>2, <1>3 DEF Begin, ThreadTypes
<1>4. ASSUME NEW c \in Clients, ClientBegins(c) PROVE ThreadTypes'
  <2>1. CASE CallSubmit(c)
    <3>1. PICK t \in fresh : Begin(c, "submit", <<t>>)
      BY <2>1 DEF CallSubmit
    <3>2. <<t>> \in Seq(Tasks) /\ <<t>> # <<>>
      BY <1>t, <3>1 DEF ThreadTypes
    <3>3. QED BY <1>3, <3>1, <3>2
  <2>2. ASSUME NEW s \in ArgArrays PROVE s \in Seq(Tasks) /\ s # <<>>
    <3>1. PICK n \in 1 .. MaxBatch : s \in [1 .. n -> fresh]
      BY DEF ArgArrays
    <3>2. s \in Seq(Tasks) /\ Len(s) = n
      BY <1>t, <3>1 DEF ThreadTypes
    <3>3. QED BY <3>1, <3>2
  <2>3. CASE CallParallelFor(c)
    BY <1>3, <2>2, <2>3 DEF CallParallelFor
  <2>4. CASE CallSubmitBatch(c)
    BY <1>3, <2>2, <2>4 DEF CallSubmitBatch
  <2>5. CASE CallWait(c)
    <3>1. <<>> \in Seq(Tasks)
      OBVIOUS
    <3>2. QED BY <1>3, <2>5, <3>1 DEF CallWait
  <2>6. CASE Leave(c)
    BY <1>t, <1>2, <2>6 DEF Leave, ThreadTypes
  <2>7. QED BY <1>4, <2>1, <2>3, <2>4, <2>5, <2>6 DEF ClientBegins
<1>5. ASSUME NEW c \in Clients, CallStep(c) PROVE ThreadTypes'
  <2>1. CASE SubmitBlock(c)
    BY <1>t, <1>2, <2>1 DEF SubmitBlock, ThreadTypes
  <2>2. CASE SubmitEnqueue(c)
    <3>1. args[c] \in Seq(Tasks) /\ args[c] # <<>>
      BY <1>t, <2>2 DEF SubmitEnqueue, ThreadTypes
    <3>2. /\ Tail(args[c]) \in Seq(Tasks)
          /\ Len(args[c]) # 1 => Tail(args[c]) # <<>>
      <4>1. /\ Tail(args[c]) \in Seq(Tasks) /\ Len(args[c]) \in Nat \ {0}
            /\ Len(Tail(args[c])) = Len(args[c]) - 1
        BY <3>1, TailDropsOne
      <4>2. Len(<<>>) = 0
        OBVIOUS
      <4>3. Len(args[c]) # 1 => Len(Tail(args[c])) # 0
        BY <4>1
      <4>4. QED BY <4>1, <4>2, <4>3, Zenon
    <3>3. args' \in [Clients -> Seq(Tasks)]
      BY <1>t, <2>2, <3>2 DEF SubmitEnqueue, ThreadTypes
    <3>4. workAvailable' \subseteq Workers
      BY <1>t, <2>2 DEF SubmitEnqueue, SignalOne, ThreadTypes
    <3>5. call' \in [Clients -> {"idle", "submit", "parallel_for", "submit_batch",
                                "wait", "join", "gone"}]
      BY <1>t, <2>2 DEF SubmitEnqueue, ReturnTo, ThreadTypes
    <3>6. \A d \in Clients : call'[d] \in {"submit", "parallel_for", "submit_batch"}
                               => args'[d] # <<>>
      BY <1>t, <2>2, <3>2 DEF SubmitEnqueue, ReturnTo, ThreadTypes
    <3>7. activeTasks' = Cardinality(Busy')
      BY <1>2, <2>2 DEF SubmitEnqueue
    <3>8. QED BY <1>t, <2>2, <3>3, <3>4, <3>5, <3>6, <3>7 DEF SubmitEnqueue, ThreadTypes
  <2>3. CASE SubmitBatch(c)
    <3> DEFINE room == Capacity - queueCount
               k    == IF Len(args[c]) <= room THEN Len(args[c]) ELSE room
    <3>1. args[c] \in Seq(Tasks) /\ queueCount \in 0 .. Capacity
      BY <1>t DEF ThreadTypes, RingTypes
    <3>2. k \in 0 .. Len(args[c])
      BY <3>1
    <3>3. SubSeq(args[c], k + 1, Len(args[c])) \in Seq(Tasks)
      BY <3>1, <3>2, DropFront
    <3>4. args' = [args EXCEPT ![c] = SubSeq(args[c], k + 1, Len(args[c]))]
      BY <2>3 DEF SubmitBatch
    <3>5. \/ call' = [call EXCEPT ![c] = "idle"] /\ queueNotFull' = queueNotFull
          \/ /\ k # Len(args[c])
             /\ call' = call /\ queueNotFull' = queueNotFull \cup {c}
      BY <2>3 DEF SubmitBatch, ReturnTo
    <3> HIDE DEF k
    <3>6. args' \in [Clients -> Seq(Tasks)]
      BY <1>t, <3>3, <3>4 DEF ThreadTypes
    <3>7. call[c] = "submit_batch"
      BY <2>3 DEF SubmitBatch
    <3>a. k # Len(args[c]) => SubSeq(args[c], k + 1, Len(args[c])) # <<>>
      <4>1. Len(SubSeq(args[c], k + 1, Len(args[c]))) = Len(args[c]) - k
        BY <3>1, <3>2, DropFront
      <4>2. Len(<<>>) = 0
        OBVIOUS
      <4>3. k # Len(args[c]) => Len(args[c]) - k # 0
        BY <3>1, <3>2
      <4>4. QED BY <4>1, <4>2, <4>3, Zenon
    <3>8. \A d \in Clients : call'[d] \in {"submit", "parallel_for", "submit_batch"}
                               => args'[d] # <<>>
      BY <1>t, <3>4, <3>5, <3>7, <3>a DEF ThreadTypes
    <3>9. activeTasks' = Cardinality(Busy')
      BY <1>2, <2>3 DEF SubmitBatch
    <3>10. QED BY <1>t, <2>3, <3>5, <3>6, <3>8, <3>9 DEF SubmitBatch, ThreadTypes
  <2>4. CASE WaitBlock(c)
    BY <1>t, <1>2, <2>4 DEF WaitBlock, ThreadTypes
  <2>5. CASE WaitReturn(c)
    BY <1>t, <1>2, <2>5 DEF WaitReturn, ThreadTypes
  <2>6. QED BY <1>5, <2>1, <2>2, <2>3, <2>4, <2>5 DEF CallStep
<1>6. CASE Destroy
  BY <1>t, <1>2, <1>6 DEF Destroy, ThreadTypes
<1>7. CASE JoinAll
  BY <1>t, <1>2, <1>7 DEF JoinAll, ThreadTypes
<1>8. ASSUME NEW t, SpuriousWake(t) PROVE ThreadTypes'
  BY <1>t, <1>2, <1>8 DEF SpuriousWake, ThreadTypes
<1>9. CASE UNCHANGED vars
  BY <1>t, <1>2, <1>9 DEF vars, ThreadTypes
<1>10. QED
  BY <1>1, <1>4, <1>5, <1>6, <1>7, <1>8, <1>9 DEF Next, AllStopped

THEOREM Typing == Spec => []Types
<1>1. Types /\ [Next]_vars => Types'
  BY RingTypesStep, ThreadTypesStep DEF Types
<1>2. QED BY TypesInit, <1>1, PTL DEF Spec

\* The type invariant of the runs: in particular the queue never holds more
\* than CARQUET_POOL_QUEUE_CAPACITY tasks and active_tasks never exceeds the
\* number of threads or goes below zero.
THEOREM TypeCorrect == Spec => []TypeOK
<1>1. Types => TypeOK
  <2> SUFFICES ASSUME Types PROVE TypeOK
    OBVIOUS
  <2>1. Cardinality(Busy) \in 0 .. Cardinality(Workers)
    <3>1. Busy \in SUBSET Workers /\ \E w : w \in Workers
      BY DEF Busy
    <3>2. QED BY <3>1, BusyCounts
  <2>2. QED BY <2>1 DEF Types, RingTypes, ThreadTypes, TypeOK
<1>2. QED BY Typing, <1>1, PTL

-------------------------------------------------------------------------------
(* No task is lost or doubled.  For the induction, the tasks that are not  *)
(* yet in the pool must be apart from each other: those of the argument    *)
(* arrays and those no call has taken.                                     *)

Apart ==
    /\ \A c \in Clients : \A i, j \in DOMAIN args[c] : args[c][i] = args[c][j] => i = j
    /\ \A c \in Clients : InArgs(c) \cap fresh = {}
    /\ \A c, d \in Clients : c # d => InArgs(c) \cap InArgs(d) = {}
    /\ \A c \in Clients : NoArgs(c) => args[c] = <<>>

\* The two are inductive together.
Conserved == Apart /\ NoTaskLostOrDoubled

\* An index among what is left after the first k, among all.
LEMMA ShiftedIndex ==
    ASSUME NEW n \in Nat, NEW k \in Nat, NEW i \in 1 .. n - k
    PROVE  k + i \in 1 .. n /\ k + i > k
  OBVIOUS

\* Enqueueing the first k arguments of c moves exactly these tasks.
LEMMA EnqueueConserves ==
    ASSUME Types, Conserved, NEW c \in Clients,
           NEW k \in 0 .. Capacity - queueCount, k <= Len(args[c]),
           NEW r \in Seq(Tasks), Len(r) = Len(args[c]) - k,
           \A i \in 1 .. Len(args[c]) - k : r[i] = args[c][k + i],
           queue' = PutItems(queue, queueTail, args[c], k),
           queueTail' = SlotAfter(queueTail, k),
           queueCount' = queueCount + k, queueHead' = queueHead,
           args' = [args EXCEPT ![c] = r],
           UNCHANGED <<wpc, task, fresh, finished>>,
           \A d \in Clients \ {c} : call'[d] = call[d],
           NoArgs(c)' => k = Len(args[c])
    PROVE  Conserved'
<1> DEFINE Moved == {args[c][i] : i \in 1 .. k}
<1>1. /\ args[c] \in Seq(Tasks) /\ Len(args[c]) \in Nat
      /\ queueCount \in 0 .. Capacity /\ k \in Nat
      /\ args'[c] = r /\ \A d \in Clients \ {c} : args'[d] = args[d]
  BY DEF Types, RingTypes, ThreadTypes
<1>2. DOMAIN args[c] = 1 .. Len(args[c]) /\ DOMAIN r = 1 .. Len(args[c]) - k
  BY <1>1
<1>3. InArgs(c) = Moved \cup InArgs(c)' /\ Moved \cap InArgs(c)' = {}
  <2>1. InArgs(c) = {args[c][i] : i \in 1 .. Len(args[c])}
    BY <1>2 DEF InArgs
  <2>2. InArgs(c)' = {r[i] : i \in 1 .. Len(args[c]) - k}
    <3>1. InArgs(c)' = {args'[c][i] : i \in DOMAIN args'[c]}
      BY DEF InArgs
    <3>2. args'[c] = r /\ DOMAIN r = 1 .. Len(args[c]) - k
      BY <1>1, <1>2
    <3>3. DOMAIN args'[c] = 1 .. Len(args[c]) - k
      BY <3>2
    <3>4. InArgs(c)' = {args'[c][i] : i \in 1 .. Len(args[c]) - k}
      BY <3>1, <3>3
    <3>5. QED BY <3>2, <3>4
  <2>3. ASSUME NEW i \in 1 .. Len(args[c]) PROVE args[c][i] \in Moved \cup InArgs(c)'
    <3>1. CASE i <= k
      BY <1>1, <3>1
    <3>2. CASE i > k
      <4>1. i - k \in 1 .. Len(args[c]) - k /\ k + (i - k) = i
        BY <1>1, <3>2
      <4>2. r[i - k] = args[c][i]
        BY <4>1
      <4>3. QED BY <2>2, <4>1, <4>2
    <3>3. QED BY <1>1, <3>1, <3>2
  <2>4. ASSUME NEW i \in 1 .. Len(args[c]) - k
        PROVE  r[i] \in InArgs(c) /\ r[i] \notin Moved
    <3>1. k + i \in 1 .. Len(args[c]) /\ k + i > k /\ r[i] = args[c][k + i]
      <4>1. k + i \in 1 .. Len(args[c]) /\ k + i > k
        BY <1>1, ShiftedIndex
      <4>2. QED BY <4>1
    <3>2. \A j \in 1 .. k : j \in 1 .. Len(args[c]) /\ j # k + i
      BY <1>1, <3>1
    <3>3. \A j \in 1 .. k : args[c][j] # args[c][k + i]
      BY <1>2, <3>1, <3>2 DEF Conserved, Apart
    <3>4. QED BY <2>1, <3>1, <3>3
  <2>5. Moved \subseteq InArgs(c)
    BY <1>1, <2>1
  <2>6. InArgs(c) \subseteq Moved \cup InArgs(c)'
    BY <2>1, <2>3
  <2>7. InArgs(c)' \subseteq InArgs(c) /\ Moved \cap InArgs(c)' = {}
    BY <2>2, <2>4
  <2>8. QED BY <2>5, <2>6, <2>7
<1>4. \A d \in Clients \ {c} : InArgs(d)' = InArgs(d)
  BY <1>1 DEF InArgs
<1>5. Apart'
  <2>1. \A d \in Clients : InArgs(d)' \subseteq InArgs(d)
    BY <1>3, <1>4
  <2>2. ASSUME NEW i \in DOMAIN r, NEW j \in DOMAIN r, r[i] = r[j] PROVE i = j
    <3> DEFINE n == Len(args[c])
    <3>a. i \in 1 .. n - k /\ j \in 1 .. n - k /\ n \in Nat
      BY <1>1, <1>2
    <3>1. /\ k + i \in 1 .. n /\ k + j \in 1 .. n
          /\ r[i] = args[c][k + i] /\ r[j] = args[c][k + j]
      <4>1. r[i] = args[c][k + i] /\ r[j] = args[c][k + j]
        BY <3>a
      <4> HIDE DEF n
      <4>2. k + i \in 1 .. n /\ k + j \in 1 .. n
        BY <1>1, <3>a, ShiftedIndex
      <4>3. QED BY <4>1, <4>2
    <3>2. k + i = k + j
      BY <1>2, <2>2, <3>1 DEF Conserved, Apart
    <3>3. QED BY <1>1, <1>2, <3>2
  <2>3. \A d \in Clients : \A i, j \in DOMAIN args'[d] : args'[d][i] = args'[d][j] => i = j
    BY <1>1, <2>2 DEF Conserved, Apart
  <2>4. NoArgs(c)' => r = <<>>
    BY <1>1
  <2>5. \A d \in Clients : NoArgs(d)' => args'[d] = <<>>
    BY <1>1, <2>4 DEF Conserved, Apart, NoArgs
  <2>6. QED BY <2>1, <2>3, <2>5 DEF Conserved, Apart
<1>6. /\ \A i \in 0 .. queueCount - 1 : QueuedAt(i)' = QueuedAt(i)
      /\ \A i \in queueCount .. queueCount + k - 1 :
            QueuedAt(i)' = args[c][i - queueCount + 1]
  BY <1>1, EnqueueAppends DEF Types
<1>7. Queued' = Queued \cup Moved
  <2>a. Queued' = {QueuedAt(i)' : i \in 0 .. queueCount' - 1}
    BY DEF Queued
  <2>b. 0 .. queueCount' - 1 = 0 .. queueCount + k - 1
    BY <1>1
  <2>1. Queued' = {QueuedAt(i)' : i \in 0 .. queueCount + k - 1}
    BY <2>a, <2>b, Zenon
  <2>2. ASSUME NEW i \in 0 .. queueCount + k - 1 PROVE QueuedAt(i)' \in Queued \cup Moved
    <3>1. CASE i < queueCount
      BY <1>1, <1>6, <3>1 DEF Queued
    <3>2. CASE i >= queueCount
      <4>1. i - queueCount + 1 \in 1 .. k /\ i \in queueCount .. queueCount + k - 1
        BY <1>1, <3>2
      <4>2. QED BY <1>6, <4>1
    <3>3. QED BY <1>1, <3>1, <3>2
  <2>3. ASSUME NEW i \in 0 .. queueCount - 1 PROVE QueuedAt(i) \in Queued'
    <3>1. i \in 0 .. queueCount + k - 1
      BY <1>1
    <3>2. QED BY <1>6, <2>1, <3>1
  <2>4. ASSUME NEW i \in 1 .. k PROVE args[c][i] \in Queued'
    <3>1. PICK j \in queueCount .. queueCount + k - 1 : j - queueCount + 1 = i
      <4>1. /\ queueCount + i - 1 \in queueCount .. queueCount + k - 1
            /\ (queueCount + i - 1) - queueCount + 1 = i
        BY <1>1
      <4>2. QED BY <4>1
    <3>2. j \in 0 .. queueCount + k - 1
      BY <1>1
    <3>3. QED BY <1>6, <2>1, <3>1, <3>2
  <2>5. Queued' \subseteq Queued \cup Moved
    BY <2>1, <2>2
  <2>6. Queued \subseteq Queued'
    BY <2>3 DEF Queued
  <2>7. Moved \subseteq Queued'
    BY <2>4
  <2>8. QED BY <2>5, <2>6, <2>7
<1>8. HandedOver' = HandedOver \cup Moved /\ Moved \cap HandedOver = {}
  <2>1. Moved \subseteq InArgs(c) /\ Moved \subseteq Tasks
    BY <1>1, <1>3
  <2>2. \A d \in Clients \ {c} : Moved \cap InArgs(d)' = {}
    BY <1>4, <2>1 DEF Conserved, Apart
  <2>3. Moved \cap fresh = {}
    BY <2>1 DEF Conserved, Apart
  <2> HIDE DEF Moved
  <2>4. UNION {InArgs(d) : d \in Clients} = Moved \cup UNION {InArgs(d)' : d \in Clients}
    BY <1>3, <1>4
  <2>5. Moved \cap UNION {InArgs(d)' : d \in Clients} = {}
    BY <1>3, <2>2
  <2>6. HandedOver' = Tasks \ (fresh \cup UNION {InArgs(d)' : d \in Clients})
    BY DEF HandedOver
  <2>7. QED BY <2>1, <2>3, <2>4, <2>5, <2>6 DEF HandedOver
<1>9. Running' = Running
  BY DEF Running
<1>10. ASSUME NEW i \in 0 .. queueCount' - 1, NEW j \in 0 .. queueCount' - 1,
              QueuedAt(i)' = QueuedAt(j)'
       PROVE  i = j
  <2>1. i \in 0 .. queueCount + k - 1 /\ j \in 0 .. queueCount + k - 1
    BY <1>1
  <2>2. ASSUME NEW x \in 0 .. queueCount + k - 1, NEW y \in 0 .. queueCount + k - 1,
               x < queueCount, y >= queueCount
        PROVE  QueuedAt(x)' # QueuedAt(y)'
    <3>1. QueuedAt(x)' \in Queued
      <4>1. x \in 0 .. queueCount - 1
        BY <1>1, <2>2
      <4>2. QED BY <1>6, <4>1 DEF Queued
    <3>2. y - queueCount + 1 \in 1 .. k /\ y \in queueCount .. queueCount + k - 1
      BY <1>1, <2>2
    <3>3. QueuedAt(y)' \in Moved
      BY <1>6, <3>2
    <3>4. Queued \subseteq HandedOver
      BY DEF Conserved, NoTaskLostOrDoubled
    <3>5. QED BY <1>8, <3>1, <3>3, <3>4
  <2>3. CASE i < queueCount /\ j < queueCount
    BY <1>1, <1>6, <1>10, <2>3 DEF Conserved, NoTaskLostOrDoubled
  <2>4. CASE i >= queueCount /\ j >= queueCount
    <3>1. /\ i - queueCount + 1 \in 1 .. Len(args[c]) /\ i \in queueCount .. queueCount + k - 1
          /\ j - queueCount + 1 \in 1 .. Len(args[c]) /\ j \in queueCount .. queueCount + k - 1
      BY <1>1, <2>1, <2>4
    <3>2. args[c][i - queueCount + 1] = args[c][j - queueCount + 1]
      BY <1>6, <1>10, <3>1
    <3>3. i - queueCount + 1 = j - queueCount + 1
      BY <1>2, <3>1, <3>2 DEF Conserved, Apart
    <3>4. QED BY <1>1, <3>3
  <2>5. QED BY <1>1, <1>10, <2>1, <2>2, <2>3, <2>4
<1>11. NoTaskLostOrDoubled'
  <2> HIDE DEF Moved
  <2>1. /\ Queued \cap (Running \cup finished) = {} /\ Running \cap finished = {}
        /\ HandedOver = Queued \cup Running \cup finished
    BY DEF Conserved, NoTaskLostOrDoubled
  <2>2. /\ Queued' \cap (Running' \cup finished') = {} /\ Running' \cap finished' = {}
        /\ HandedOver' = Queued' \cup Running' \cup finished'
    BY <1>7, <1>8, <1>9, <2>1
  <2>3. \A v, w \in Workers :
           wpc'[v] = "run" /\ wpc'[w] = "run" /\ task'[v] = task'[w] => v = w
    BY DEF Conserved, NoTaskLostOrDoubled
  <2>4. QED BY <1>10, <2>2, <2>3 DEF NoTaskLostOrDoubled
<1>12. QED BY <1>5, <1>11 DEF Conserved

\* A step that moves no task.
LEMMA FrameConserves ==
    ASSUME Conserved, UNCHANGED <<ringVars, args, task, fresh, finished>>,
           \A w \in Workers : wpc'[w] = "run" <=> wpc[w] = "run",
           \A c \in Clients : NoArgs(c)' => NoArgs(c)
    PROVE  Conserved'
<1>1. Queued' = Queued /\ \A i : QueuedAt(i)' = QueuedAt(i)
  BY RingStutters
<1>2. Running' = Running
  BY DEF Running
<1>3. \A c \in Clients : InArgs(c)' = InArgs(c)
  BY DEF InArgs
<1>4. HandedOver' = HandedOver
  BY <1>3 DEF HandedOver
<1>5. Apart'
  BY <1>3 DEF Conserved, Apart
<1>6. NoTaskLostOrDoubled'
  BY <1>1, <1>2, <1>4 DEF Conserved, NoTaskLostOrDoubled, ringVars
<1>7. QED BY <1>5, <1>6 DEF Conserved

\* A dequeue moves the oldest task from the queue to one worker.
LEMMA DequeueConserves ==
    ASSUME Types, Conserved, NEW w \in Workers, WorkerDequeue(w)
    PROVE  Conserved'
<1> DEFINE t == queue[queueHead]
<1>1. /\ queueCount \in Nat \ {0} /\ queueCount' = queueCount - 1
      /\ t = QueuedAt(0)
      /\ \A i \in 0 .. queueCount - 2 : QueuedAt(i)' = QueuedAt(i + 1)
  BY DequeueShifts DEF WorkerDequeue, Types, RingTypes
<1>2. /\ wpc[w] = "loop" /\ wpc' = [wpc EXCEPT ![w] = "run"]
      /\ task' = [task EXCEPT ![w] = t]
      /\ wpc \in [Workers -> {"loop", "run", "finish", "exited"}]
      /\ task \in [Workers -> Tasks \cup {NoTask}]
      /\ UNCHANGED <<call, args, fresh, finished>>
  BY DEF WorkerDequeue, Types, ThreadTypes
<1> HIDE DEF t
<1>3. Running' = Running \cup {t}
  BY <1>2 DEF Running
<1>4. Queued = Queued' \cup {t} /\ t \notin Queued'
  <2>a. Queued' = {QueuedAt(i)' : i \in 0 .. queueCount' - 1}
    BY DEF Queued
  <2>b. 0 .. queueCount' - 1 = 0 .. queueCount - 2
    BY <1>1
  <2>1. Queued' = {QueuedAt(i)' : i \in 0 .. queueCount - 2}
    BY <2>a, <2>b, Zenon
  <2>2. ASSUME NEW i \in 0 .. queueCount - 2
        PROVE  QueuedAt(i)' \in Queued /\ QueuedAt(i)' # t
    <3>1. i + 1 \in 0 .. queueCount - 1 /\ 0 \in 0 .. queueCount - 1 /\ i + 1 # 0
      BY <1>1
    <3>2. QueuedAt(i + 1) \in Queued /\ QueuedAt(i + 1) # QueuedAt(0)
      BY <3>1 DEF Queued, Conserved, NoTaskLostOrDoubled
    <3>3. QED BY <1>1, <3>2
  <2>3. ASSUME NEW i \in 0 .. queueCount - 1 PROVE QueuedAt(i) \in Queued' \cup {t}
    <3>1. CASE i = 0
      BY <1>1, <3>1
    <3>2. CASE i # 0
      <4>1. i - 1 \in 0 .. queueCount - 2 /\ (i - 1) + 1 = i
        BY <1>1, <3>2
      <4>2. PICK j \in 0 .. queueCount - 2 : j + 1 = i
        BY <4>1
      <4>3. QED BY <1>1, <2>1, <4>2
    <3>3. QED BY <3>1, <3>2
  <2>4. t \in Queued
    <3>1. 0 \in 0 .. queueCount - 1
      BY <1>1
    <3>2. QED BY <1>1, <3>1 DEF Queued
  <2>5. Queued \subseteq Queued' \cup {t}
    BY <2>3 DEF Queued
  <2>6. Queued' \subseteq Queued /\ t \notin Queued'
    BY <2>1, <2>2
  <2>7. QED BY <2>4, <2>5, <2>6
<1>5. ASSUME NEW i \in 0 .. queueCount' - 1, NEW j \in 0 .. queueCount' - 1,
             QueuedAt(i)' = QueuedAt(j)'
      PROVE  i = j
  <2>1. /\ i \in 0 .. queueCount - 2 /\ j \in 0 .. queueCount - 2
        /\ i + 1 \in 0 .. queueCount - 1 /\ j + 1 \in 0 .. queueCount - 1
    BY <1>1
  <2>2. QueuedAt(i + 1) = QueuedAt(j + 1)
    BY <1>1, <1>5, <2>1
  <2>3. i + 1 = j + 1
    BY <2>1, <2>2 DEF Conserved, NoTaskLostOrDoubled
  <2>4. QED BY <2>1, <2>3
<1>6. HandedOver' = HandedOver /\ Apart'
  <2>1. \A c \in Clients : InArgs(c)' = InArgs(c)
    BY <1>2 DEF InArgs
  <2>2. QED BY <1>2, <2>1 DEF HandedOver, Conserved, Apart, NoArgs
<1>7. NoTaskLostOrDoubled'
  <2>1. /\ Queued \cap (Running \cup finished) = {} /\ Running \cap finished = {}
        /\ HandedOver = Queued \cup Running \cup finished
        /\ \A u, v \in Workers :
              wpc[u] = "run" /\ wpc[v] = "run" /\ task[u] = task[v] => u = v
    BY DEF Conserved, NoTaskLostOrDoubled
  <2>2. /\ Queued' \cap (Running' \cup finished') = {} /\ Running' \cap finished' = {}
        /\ HandedOver' = Queued' \cup Running' \cup finished'
    BY <1>2, <1>3, <1>4, <1>6, <2>1
  <2>3. \A u \in Workers : wpc[u] = "run" => task[u] # t
    BY <1>4, <2>1 DEF Running
  <2>4. \A u, v \in Workers :
           wpc'[u] = "run" /\ wpc'[v] = "run" /\ task'[u] = task'[v] => u = v
    BY <1>2, <2>1, <2>3
  <2>5. QED BY <1>5, <2>2, <2>4 DEF NoTaskLostOrDoubled
<1>8. QED BY <1>6, <1>7 DEF Conserved

\* Running a task moves it from its worker to the finished ones.
LEMMA RunConserves ==
    ASSUME Types, Conserved, NEW w \in Workers, WorkerRun(w)
    PROVE  Conserved'
<1>1. /\ wpc[w] = "run" /\ wpc' = [wpc EXCEPT ![w] = "finish"]
      /\ wpc \in [Workers -> {"loop", "run", "finish", "exited"}]
      /\ finished' = finished \cup {task[w]}
      /\ UNCHANGED <<ringVars, call, args, task, fresh>>
  BY DEF WorkerRun, Types, ThreadTypes
<1>2. /\ Queued \cap (Running \cup finished) = {} /\ Running \cap finished = {}
      /\ HandedOver = Queued \cup Running \cup finished
      /\ \A u, v \in Workers :
            wpc[u] = "run" /\ wpc[v] = "run" /\ task[u] = task[v] => u = v
  BY DEF Conserved, NoTaskLostOrDoubled
<1>3. Running' = Running \ {task[w]} /\ task[w] \in Running
  BY <1>1, <1>2 DEF Running
<1>4. Queued' = Queued /\ queueCount' = queueCount /\ \A i : QueuedAt(i)' = QueuedAt(i)
  BY <1>1, RingStutters DEF ringVars
<1>5. HandedOver' = HandedOver /\ Apart'
  <2>1. \A c \in Clients : InArgs(c)' = InArgs(c)
    BY <1>1 DEF InArgs
  <2>2. QED BY <1>1, <2>1 DEF HandedOver, Conserved, Apart, NoArgs
<1>6. \A u, v \in Workers :
         wpc'[u] = "run" /\ wpc'[v] = "run" /\ task'[u] = task'[v] => u = v
  BY <1>1, <1>2
<1>7. \A i, j \in 0 .. queueCount' - 1 : QueuedAt(i)' = QueuedAt(j)' => i = j
  BY <1>4 DEF Conserved, NoTaskLostOrDoubled
<1>8. /\ Queued' \cap (Running' \cup finished') = {} /\ Running' \cap finished' = {}
      /\ HandedOver' = Queued' \cup Running' \cup finished'
  BY <1>1, <1>2, <1>3, <1>4, <1>5
<1>9. QED BY <1>5, <1>6, <1>7, <1>8 DEF Conserved, NoTaskLostOrDoubled

\* A call that begins takes its arguments from the tasks nobody has taken.
LEMMA BeginConserves ==
    ASSUME Types, Conserved, NEW c \in Clients, NEW op, NEW s \in Seq(fresh),
           \A i, j \in DOMAIN s : s[i] = s[j] => i = j,
           op = "wait" => s = <<>>,
           op \in {"submit", "parallel_for", "submit_batch", "wait"},
           Begin(c, op, s)
    PROVE  Conserved'
<1>1. /\ call[c] = "idle" /\ call' = [call EXCEPT ![c] = op]
      /\ args' = [args EXCEPT ![c] = s]
      /\ fresh' = fresh \ {s[i] : i \in DOMAIN s}
      /\ args \in [Clients -> Seq(Tasks)]
      /\ call \in [Clients -> {"idle", "submit", "parallel_for", "submit_batch",
                               "wait", "join", "gone"}]
      /\ fresh \subseteq Tasks
      /\ UNCHANGED <<ringVars, wpc, task, finished>>
  BY DEF Begin, Types, ThreadTypes
<1>2. InArgs(c) = {} /\ InArgs(c)' = {s[i] : i \in DOMAIN s}
  <2>1. args[c] = <<>>
    BY <1>1 DEF Conserved, Apart, NoArgs
  <2>2. QED BY <1>1, <2>1 DEF InArgs
<1>3. \A d \in Clients \ {c} : InArgs(d)' = InArgs(d) /\ args'[d] = args[d]
  BY <1>1 DEF InArgs
<1>4. InArgs(c)' \subseteq fresh /\ fresh' = fresh \ InArgs(c)'
  BY <1>1, <1>2
<1>5. Apart'
  <2>1. \A d \in Clients : \A i, j \in DOMAIN args'[d] : args'[d][i] = args'[d][j] => i = j
    BY <1>1, <1>3 DEF Conserved, Apart
  <2>2. \A d \in Clients : InArgs(d)' \cap fresh' = {}
    BY <1>3, <1>4 DEF Conserved, Apart
  <2>3. \A d, e \in Clients : d # e => InArgs(d)' \cap InArgs(e)' = {}
    BY <1>3, <1>4 DEF Conserved, Apart
  <2>4. \A d \in Clients : NoArgs(d)' => args'[d] = <<>>
    BY <1>1, <1>3 DEF Conserved, Apart, NoArgs
  <2>5. QED BY <2>1, <2>2, <2>3, <2>4 DEF Apart
<1>6. HandedOver' = HandedOver
  <2>1. HandedOver' = Tasks \ (fresh' \cup UNION {InArgs(d)' : d \in Clients})
    BY DEF HandedOver
  <2>2. fresh' \cup UNION {InArgs(d)' : d \in Clients}
           = fresh \cup UNION {InArgs(d) : d \in Clients}
    <3>1. ASSUME NEW t PROVE t \in fresh' \cup UNION {InArgs(d)' : d \in Clients}
             <=> t \in fresh' \/ t \in InArgs(c)' \/ \E d \in Clients \ {c} : t \in InArgs(d)
      BY <1>3
    <3>2. ASSUME NEW t PROVE t \in fresh \cup UNION {InArgs(d) : d \in Clients}
             <=> t \in fresh \/ \E d \in Clients \ {c} : t \in InArgs(d)
      BY <1>2
    <3>3. QED BY <1>4, <3>1, <3>2
  <2>3. QED BY <2>1, <2>2 DEF HandedOver
<1>7. Queued' = Queued /\ queueCount' = queueCount /\ \A i : QueuedAt(i)' = QueuedAt(i)
  BY <1>1, RingStutters DEF ringVars
<1>8. Running' = Running
  BY <1>1 DEF Running
<1>9. NoTaskLostOrDoubled'
  BY <1>1, <1>6, <1>7, <1>8 DEF Conserved, NoTaskLostOrDoubled
<1>10. QED BY <1>5, <1>9 DEF Conserved

LEMMA ConservedInit == Init => Conserved
<1> SUFFICES ASSUME Init PROVE Conserved
  OBVIOUS
<1>1. /\ \A c \in Clients : args[c] = <<>> /\ InArgs(c) = {}
      /\ Queued = {} /\ Running = {}
  BY DEF Init, InArgs, Queued, Running
<1>2. Apart
  BY <1>1 DEF Init, Apart
<1>3. HandedOver = {}
  BY <1>1 DEF HandedOver, Init
<1>4. NoTaskLostOrDoubled
  BY <1>1, <1>3 DEF NoTaskLostOrDoubled, Init
<1>5. QED BY <1>2, <1>4 DEF Conserved

LEMMA ConservedStep == Types /\ Conserved /\ [Next]_vars => Conserved'
<1> SUFFICES ASSUME Types, Conserved, [Next]_vars PROVE Conserved'
  OBVIOUS
<1>t. ThreadTypes /\ RingTypes
  BY DEF Types
<1>1. ASSUME NEW w \in Workers, WorkerStep(w) PROVE Conserved'
  <2>1. CASE WorkerSleep(w)
    BY <2>1, FrameConserves DEF WorkerSleep, NoArgs
  <2>2. CASE WorkerExit(w)
    BY <1>t, <2>2, FrameConserves DEF WorkerExit, NoArgs, ThreadTypes
  <2>3. CASE WorkerDequeue(w)
    BY <2>3, DequeueConserves
  <2>4. CASE WorkerRun(w)
    BY <2>4, RunConserves
  <2>5. CASE WorkerFinish(w)
    BY <1>t, <2>5, FrameConserves DEF WorkerFinish, NoArgs, ThreadTypes
  <2>6. QED BY <1>1, <2>1, <2>2, <2>3, <2>4, <2>5 DEF WorkerStep
<1>2. ASSUME NEW c \in Clients, ClientBegins(c) PROVE Conserved'
  <2>1. CASE CallSubmit(c)
    <3>1. PICK t \in fresh : Begin(c, "submit", <<t>>)
      BY <2>1 DEF CallSubmit
    <3>2. /\ <<t>> \in Seq(fresh)
          /\ \A i, j \in DOMAIN <<t>> : <<t>>[i] = <<t>>[j] => i = j
      BY <3>1
    <3>3. QED BY <3>1, <3>2, BeginConserves
  <2>2. ASSUME NEW s \in ArgArrays
        PROVE  s \in Seq(fresh) /\ \A i, j \in DOMAIN s : s[i] = s[j] => i = j
    <3>1. PICK n \in 1 .. MaxBatch : s \in [1 .. n -> fresh]
      BY DEF ArgArrays
    <3>2. QED BY <3>1 DEF ArgArrays
  <2>3. CASE CallParallelFor(c)
    BY <2>2, <2>3, BeginConserves DEF CallParallelFor
  <2>4. CASE CallSubmitBatch(c)
    BY <2>2, <2>4, BeginConserves DEF CallSubmitBatch
  <2>5. CASE CallWait(c)
    <3>1. <<>> \in Seq(fresh) /\ DOMAIN <<>> = {}
      OBVIOUS
    <3>2. QED BY <2>5, <3>1, BeginConserves DEF CallWait
  <2>6. CASE Leave(c)
    BY <1>t, <2>6, FrameConserves DEF Leave, NoArgs, ThreadTypes
  <2>7. QED BY <1>2, <2>1, <2>3, <2>4, <2>5, <2>6 DEF ClientBegins
<1>3. ASSUME NEW c \in Clients, CallStep(c) PROVE Conserved'
  <2>1. CASE SubmitBlock(c)
    BY <2>1, FrameConserves DEF SubmitBlock, NoArgs
  <2>2. CASE SubmitEnqueue(c)
    <3>1. /\ args[c] \in Seq(Tasks) /\ args[c] # <<>>
          /\ queueCount \in 0 .. Capacity /\ queueCount < Capacity
      BY <1>t, <2>2 DEF SubmitEnqueue, QueueFull, ThreadTypes, RingTypes
    <3>2. /\ Tail(args[c]) \in Seq(Tasks) /\ Len(args[c]) \in Nat \ {0}
          /\ Len(Tail(args[c])) = Len(args[c]) - 1
          /\ \A i \in 1 .. Len(args[c]) - 1 : Tail(args[c])[i] = args[c][i + 1]
      BY <3>1, TailDropsOne
    <3>3. /\ 1 \in 0 .. Capacity - queueCount /\ 1 <= Len(args[c])
          /\ \A i \in 1 .. Len(args[c]) - 1 : Tail(args[c])[i] = args[c][1 + i]
      BY <3>1, <3>2
    <3>4. /\ \A d \in Clients \ {c} : call'[d] = call[d]
          /\ NoArgs(c)' => Len(args[c]) = 1
      BY <1>t, <2>2 DEF SubmitEnqueue, NoArgs, ThreadTypes
    <3>5. /\ queue' = PutItems(queue, queueTail, args[c], 1)
          /\ queueTail' = SlotAfter(queueTail, 1)
          /\ queueCount' = queueCount + 1 /\ queueHead' = queueHead
          /\ args' = [args EXCEPT ![c] = Tail(args[c])]
          /\ UNCHANGED <<wpc, task, fresh, finished>>
      BY <2>2 DEF SubmitEnqueue
    <3>6. QED BY <3>2, <3>3, <3>4, <3>5, EnqueueConserves
  <2>3. CASE SubmitBatch(c)
    <3> DEFINE room == Capacity - queueCount
               k    == IF Len(args[c]) <= room THEN Len(args[c]) ELSE room
               r    == SubSeq(args[c], k + 1, Len(args[c]))
    <3>1. args[c] \in Seq(Tasks) /\ queueCount \in 0 .. Capacity
      BY <1>t DEF ThreadTypes, RingTypes
    <3>2. k \in 0 .. Capacity - queueCount /\ k <= Len(args[c]) /\ k \in 0 .. Len(args[c])
      BY <3>1
    <3>3. /\ r \in Seq(Tasks) /\ Len(r) = Len(args[c]) - k
          /\ \A i \in 1 .. Len(args[c]) - k : r[i] = args[c][k + i]
      BY <3>1, <3>2, DropFront
    <3>4. /\ queue' = PutItems(queue, queueTail, args[c], k)
          /\ queueTail' = SlotAfter(queueTail, k)
          /\ queueCount' = queueCount + k /\ queueHead' = queueHead
          /\ args' = [args EXCEPT ![c] = r]
          /\ UNCHANGED <<wpc, task, fresh, finished>>
          /\ call[c] = "submit_batch"
      BY <2>3 DEF SubmitBatch
    <3>5. \/ k = Len(args[c]) /\ call' = [call EXCEPT ![c] = "idle"]
          \/ call' = call
      BY <2>3 DEF SubmitBatch, ReturnTo
    <3> HIDE DEF k, r
    <3>6. /\ \A d \in Clients \ {c} : call'[d] = call[d]
          /\ NoArgs(c)' => k = Len(args[c])
      BY <1>t, <3>4, <3>5 DEF NoArgs, ThreadTypes
    <3>7. QED BY <3>2, <3>3, <3>4, <3>6, EnqueueConserves
  <2>4. CASE WaitBlock(c)
    BY <2>4, FrameConserves DEF WaitBlock, NoArgs
  <2>5. CASE WaitReturn(c)
    BY <1>t, <2>5, FrameConserves DEF WaitReturn, NoArgs, ThreadTypes
  <2>6. QED BY <1>3, <2>1, <2>2, <2>3, <2>4, <2>5 DEF CallStep
<1>4. CASE Destroy
  BY <1>t, <1>4, FrameConserves DEF Destroy, NoArgs, ThreadTypes
<1>5. CASE JoinAll
  BY <1>t, <1>5, FrameConserves DEF JoinAll, NoArgs, ThreadTypes
<1>6. ASSUME NEW t, SpuriousWake(t) PROVE Conserved'
  BY <1>6, FrameConserves DEF SpuriousWake, NoArgs
<1>7. CASE UNCHANGED vars
  BY <1>7, FrameConserves DEF vars, ringVars, NoArgs
<1>8. QED
  BY <1>1, <1>2, <1>3, <1>4, <1>5, <1>6, <1>7 DEF Next, AllStopped

\* worker_thread_func's dequeue against the enqueues of submit, parallel_for
\* and submit_batch: every task handed over is in exactly one place, for any
\* queue capacity and any number of threads.
THEOREM TasksConserved == Spec => [](Types /\ Conserved)
<1>1. Init => Types /\ Conserved
  BY TypesInit, ConservedInit
<1>2. Types /\ Conserved /\ [Next]_vars => (Types /\ Conserved)'
  BY RingTypesStep, ThreadTypesStep, ConservedStep DEF Types
<1>3. QED BY <1>1, <1>2, PTL DEF Spec

\* The dequeue of worker_thread_func and the three calls that enqueue hand every
\* task on exactly once, also when the ring wraps.
THEOREM NoTaskIsLostOrDoubled == Spec => []NoTaskLostOrDoubled
<1>1. Conserved => NoTaskLostOrDoubled
  BY DEF Conserved
<1>2. QED BY TasksConserved, <1>1, PTL

\* A wait that returns has seen an empty queue and no active task, which by
\* the exact count of active_tasks means that no worker is running one.
THEOREM WaitIsComplete == Spec => WaitCoversEveryTask
<1> DEFINE Step == \A c \in Clients : call[c] = "wait" /\ call'[c] = "idle"
                      => HandedOver \subseteq finished
<1>1. Types /\ Conserved /\ [Next]_vars => Step
  <2> SUFFICES ASSUME Types, Conserved, [Next]_vars, NEW c \in Clients,
                      call[c] = "wait", call'[c] = "idle"
               PROVE  HandedOver \subseteq finished
    OBVIOUS
  <2>t. /\ call \in [Clients -> {"idle", "submit", "parallel_for", "submit_batch",
                                 "wait", "join", "gone"}]
        /\ activeTasks = Cardinality(Busy) /\ queueCount \in Nat
    BY DEF Types, ThreadTypes, RingTypes
  <2>1. WaitReturn(c)
    <3>1. ASSUME NEW d \in Clients, NEW op, NEW s, Begin(d, op, s) PROVE FALSE
      BY <2>t, <3>1 DEF Begin
    <3>2. ASSUME NEW d \in Clients, ClientBegins(d) PROVE FALSE
      BY <2>t, <3>1, <3>2 DEF ClientBegins, CallSubmit, CallParallelFor,
         CallSubmitBatch, CallWait, Leave
    <3>3. ASSUME NEW d \in Clients, CallStep(d) PROVE WaitReturn(c)
      BY <2>t, <3>3 DEF CallStep, SubmitBlock, SubmitEnqueue, SubmitBatch,
         WaitBlock, WaitReturn
    <3>4. QED
      BY <2>t, <3>2, <3>3 DEF Next, WorkerStep, WorkerSleep, WorkerExit, WorkerDequeue,
         WorkerRun, WorkerFinish, Destroy, JoinAll, SpuriousWake, AllStopped, vars
  <2>2. queueCount = 0 /\ Cardinality(Busy) = 0
    BY <2>1, <2>t DEF WaitReturn, AllTasksDone
  <2>3. Busy = {}
    <3>1. IsFiniteSet(Busy)
      BY BusyCounts, WorkerPoolAssumption DEF Busy
    <3>2. QED BY <2>2, <3>1, FS_EmptySet
  <2>4. Queued = {} /\ Running = {}
    BY <2>2, <2>3 DEF Queued, Running, Busy
  <2>5. QED BY <2>4 DEF Conserved, NoTaskLostOrDoubled
<1>2. QED BY TasksConserved, <1>1, PTL DEF Spec, WaitCoversEveryTask

-------------------------------------------------------------------------------
(* Shutting down.                                                          *)

\* Once shutdown is set nobody but the joining owner is left to use the pool,
\* and a worker leaves only then, and only an empty queue.
Stopping ==
    /\ shutdown <=> call[Owner] \in {"join", "gone"}
    /\ \A c \in Clients \ {Owner} : /\ shutdown => call[c] = "gone"
                                   /\ call[c] # "join"
    /\ \A w \in Workers : wpc[w] = "exited" => shutdown /\ queueCount = 0
    /\ call[Owner] = "gone" => \A w \in Workers : wpc[w] = "exited"

LEMMA StoppingStep == Types /\ Stopping /\ [Next]_vars => Stopping'
<1> SUFFICES ASSUME Types, Stopping, [Next]_vars PROVE Stopping'
  OBVIOUS
<1>t. /\ call \in [Clients -> {"idle", "submit", "parallel_for", "submit_batch",
                               "wait", "join", "gone"}]
      /\ wpc \in [Workers -> {"loop", "run", "finish", "exited"}]
      /\ shutdown \in BOOLEAN /\ queueCount \in Nat
  BY DEF Types, ThreadTypes, RingTypes
<1>1. ASSUME NEW w \in Workers, WorkerStep(w) PROVE Stopping'
  BY <1>t, <1>1 DEF WorkerStep, WorkerSleep, WorkerExit, WorkerDequeue, WorkerRun,
     WorkerFinish, MustExit, Stopping, ringVars
<1>2. ASSUME NEW c \in Clients, ~shutdown, UNCHANGED <<shutdown, wpc>>,
             NEW op \in {"idle", "submit", "parallel_for", "submit_batch", "wait"},
             call' = [call EXCEPT ![c] = op]
      PROVE  Stopping'
  BY <1>t, <1>2 DEF Stopping
<1>3. ASSUME NEW c \in Clients, call[c] \in {"submit", "parallel_for", "submit_batch", "wait"}
      PROVE  ~shutdown
  BY <1>3 DEF Stopping
<1>4. ASSUME NEW c \in Clients, CallStep(c) PROVE Stopping'
  <2>1. CASE SubmitBlock(c)
    BY <1>t, <2>1 DEF SubmitBlock, Stopping, ringVars
  <2>2. CASE SubmitEnqueue(c)
    <3>1. \/ call' = [call EXCEPT ![c] = ReturnTo(call[c])]
          \/ call' = [call EXCEPT ![c] = call[c]]
      BY <2>2 DEF SubmitEnqueue
    <3>2. ReturnTo(call[c]) \in {"idle", "wait"} /\ call[c] \in {"submit", "parallel_for"}
      BY <2>2 DEF SubmitEnqueue, ReturnTo
    <3>3. UNCHANGED <<shutdown, wpc>>
      BY <2>2 DEF SubmitEnqueue
    <3>4. QED BY <1>2, <1>3, <3>1, <3>2, <3>3
  <2>3. CASE SubmitBatch(c)
    <3>1. call[c] = "submit_batch" /\ UNCHANGED <<shutdown, wpc>>
      BY <2>3 DEF SubmitBatch
    <3>2. \/ call' = [call EXCEPT ![c] = "idle"]
          \/ call' = [call EXCEPT ![c] = "submit_batch"]
      <4>1. call' = [call EXCEPT ![c] = "idle"] \/ call' = call
        BY <2>3 DEF SubmitBatch, ReturnTo
      <4>2. QED BY <1>t, <3>1, <4>1
    <3>3. QED BY <1>2, <1>3, <3>1, <3>2
  <2>4. CASE WaitBlock(c)
    BY <1>t, <2>4 DEF WaitBlock, Stopping, ringVars
  <2>5. CASE WaitReturn(c)
    BY <1>2, <1>3, <2>5 DEF WaitReturn
  <2>6. QED BY <1>4, <2>1, <2>2, <2>3, <2>4, <2>5 DEF CallStep
<1>5. ASSUME NEW c \in Clients, ClientBegins(c) PROVE Stopping'
  <2>1. ASSUME NEW op \in {"submit", "parallel_for", "submit_batch", "wait"}, NEW s,
               Begin(c, op, s)
        PROVE  Stopping'
    BY <1>2, <2>1 DEF Begin
  <2>2. CASE Leave(c)
    BY <1>t, <2>2 DEF Leave, Stopping, ringVars
  <2>3. QED BY <1>5, <2>1, <2>2 DEF ClientBegins, CallSubmit, CallParallelFor,
               CallSubmitBatch, CallWait
<1>6. CASE Destroy
  BY <1>t, <1>6 DEF Destroy, Stopping, ringVars
<1>7. CASE JoinAll
  BY <1>t, <1>7 DEF JoinAll, Stopping, ringVars
<1>8. ASSUME NEW t, SpuriousWake(t) PROVE Stopping'
  BY <1>8 DEF SpuriousWake, Stopping, ringVars
<1>9. CASE UNCHANGED vars
  BY <1>9 DEF vars, Stopping
<1>10. QED
  BY <1>1, <1>4, <1>5, <1>6, <1>7, <1>8, <1>9 DEF Next, AllStopped

\* carquet_worker_pool_destroy: by the time the pool is freed its queue has been
\* drained and every thread has left.
THEOREM DestroyIsComplete == Spec => []DestroyDrains
<1>1. Init => Stopping
  BY DEF Init, Stopping
<1>2. Spec => []Stopping
  BY Typing, <1>1, StoppingStep, PTL DEF Spec
<1>3. Conserved /\ Stopping => DestroyDrains
  <2> SUFFICES ASSUME Conserved, Stopping, call[Owner] = "gone"
               PROVE  HandedOver \subseteq finished /\ \A w \in Workers : wpc[w] = "exited"
    BY DEF DestroyDrains
  <2>1. queueCount = 0 /\ \A w \in Workers : wpc[w] = "exited"
    BY DEF Stopping
  <2>2. Queued = {} /\ Running = {}
    BY <2>1 DEF Queued, Running
  <2>3. QED BY <2>1, <2>2 DEF Conserved, NoTaskLostOrDoubled
<1>4. QED BY TasksConserved, <1>2, <1>3, PTL

-------------------------------------------------------------------------------
(* No lost wake-ups.                                                       *)

\* The workers about to look at the queue, and the clients about to look for
\* a free slot.
Ready == {w \in Workers \ workAvailable : wpc[w] = "loop"}
Submitting == {"submit", "parallel_for", "submit_batch"}
Hopeful == {c \in Clients : Awake(c) /\ call[c] \in Submitting}

\* Who may sleep on what.
Sleepers ==
    /\ \A w \in workAvailable : wpc[w] = "loop"
    /\ \A c \in queueNotFull : call[c] \in Submitting
    /\ \A c \in workDone : call[c] = "wait"

\* A finite set that gains or keeps an element, or loses one.
LEMMA CountBounds ==
    ASSUME NEW S, IsFiniteSet(S), NEW T \in SUBSET S, NEW x
    PROVE  /\ Cardinality(T) \in Nat
           /\ Cardinality(T \ {x}) \in Nat
           /\ Cardinality(T \ {x}) >= Cardinality(T) - 1
           /\ x \in S \ T => Cardinality(T \cup {x}) = Cardinality(T) + 1
           /\ \A U \in SUBSET S : T \subseteq U => /\ Cardinality(U) \in Nat
                                                 /\ Cardinality(T) <= Cardinality(U)
<1>1. IsFiniteSet(T) /\ Cardinality(T) \in Nat
  BY FS_Subset, FS_CardinalityType
<1>2. x \in T => Cardinality(T \ {x}) = Cardinality(T) - 1
  BY <1>1, FS_RemoveElement
<1>3. x \notin T => T \ {x} = T
  OBVIOUS
<1>4. IsFiniteSet(T \ {x}) /\ Cardinality(T \ {x}) \in Nat
  BY <1>1, FS_Subset, FS_CardinalityType
<1>5. x \notin T => Cardinality(T \cup {x}) = Cardinality(T) + 1
  BY <1>1, FS_AddElement
<1>6. ASSUME NEW U \in SUBSET S, T \subseteq U
      PROVE  Cardinality(U) \in Nat /\ Cardinality(T) <= Cardinality(U)
  BY <1>6, FS_Subset, FS_CardinalityType
<1>7. QED BY <1>1, <1>2, <1>3, <1>4, <1>5, <1>6

\* The counting argument for one condition variable that is signalled once per
\* item: Asleep wait for one, Users are awake to use one, Items are there.
LEMMA OneSignalPerItem ==
    ASSUME NEW S, IsFiniteSet(S), NEW Asleep \in SUBSET S, NEW Users \in SUBSET S,
           Asleep \cap Users = {},
           NEW Items \in Nat, Asleep # {} => Items <= Cardinality(Users),
           NEW Left \in SignalOne(Asleep), NEW After \in SUBSET S,
           Left # {} => Users \cup (Asleep \ Left) \subseteq After
    PROVE  Left # {} => Items + 1 <= Cardinality(After)
<1> SUFFICES ASSUME Left # {} PROVE Items + 1 <= Cardinality(After)
  OBVIOUS
<1>1. PICK x \in Asleep : Left = Asleep \ {x}
  BY DEF SignalOne
<1>2. x \in S \ Users /\ Users \cup {x} \subseteq After
  BY <1>1
<1>3. Cardinality(Users \cup {x}) = Cardinality(Users) + 1 /\ Cardinality(Users) \in Nat
  BY <1>2, CountBounds
<1>4. /\ Cardinality(Users \cup {x}) <= Cardinality(After)
      /\ Cardinality(After) \in Nat
  BY <1>2, CountBounds
<1>5. QED BY <1>1, <1>3, <1>4

LEMMA SleepersStep == Types /\ Sleepers /\ [Next]_vars => Sleepers'
<1> SUFFICES ASSUME Types, Sleepers, [Next]_vars PROVE Sleepers'
  OBVIOUS
<1> USE DEF Sleepers, Submitting
<1>t. /\ call \in [Clients -> {"idle", "submit", "parallel_for", "submit_batch",
                               "wait", "join", "gone"}]
      /\ wpc \in [Workers -> {"loop", "run", "finish", "exited"}]
      /\ workDone \subseteq Clients /\ queueNotFull \subseteq Clients
      /\ workAvailable \subseteq Workers /\ Workers \cap Clients = {}
  BY DEF Types, ThreadTypes
<1>1. ASSUME NEW w \in Workers, WorkerStep(w) PROVE Sleepers'
  BY <1>t, <1>1 DEF WorkerStep, WorkerSleep, WorkerExit, WorkerDequeue, WorkerRun,
     WorkerFinish, SignalOne
<1>2. ASSUME NEW c \in Clients, CallStep(c) PROVE Sleepers'
  <2>1. CASE SubmitBlock(c)
    BY <1>t, <2>1 DEF SubmitBlock
  <2>2. CASE SubmitEnqueue(c)
    <3>1. c \notin workDone \cup queueNotFull
      BY <2>2 DEF SubmitEnqueue, Awake
    <3>2. QED BY <1>t, <2>2, <3>1 DEF SubmitEnqueue, SignalOne
  <2>3. CASE SubmitBatch(c)
    <3>1. /\ c \notin workDone \cup queueNotFull /\ call[c] = "submit_batch"
          /\ workAvailable' = {} /\ UNCHANGED <<workDone, wpc>>
          /\ \/ \E op : call' = [call EXCEPT ![c] = op] /\ queueNotFull' = queueNotFull
             \/ call' = call /\ queueNotFull' = queueNotFull \cup {c}
      BY <2>3 DEF SubmitBatch, Awake
    <3>2. QED BY <1>t, <3>1
  <2>4. CASE WaitBlock(c)
    BY <1>t, <2>4 DEF WaitBlock
  <2>5. CASE WaitReturn(c)
    BY <1>t, <2>5 DEF WaitReturn, Awake
  <2>6. QED BY <1>2, <2>1, <2>2, <2>3, <2>4, <2>5 DEF CallStep
<1>3. ASSUME NEW c \in Clients, ClientBegins(c) PROVE Sleepers'
  BY <1>t, <1>3 DEF ClientBegins, CallSubmit, CallParallelFor, CallSubmitBatch, CallWait,
     Begin, Leave
<1>4. CASE Destroy
  BY <1>t, <1>4 DEF Destroy
<1>5. CASE JoinAll
  BY <1>t, <1>5 DEF JoinAll
<1>6. ASSUME NEW t, SpuriousWake(t) PROVE Sleepers'
  BY <1>6 DEF SpuriousWake
<1>7. CASE UNCHANGED vars
  BY <1>7 DEF vars
<1>8. QED
  BY <1>1, <1>2, <1>3, <1>4, <1>5, <1>6, <1>7 DEF Next, AllStopped

\* Each submit wakes at most one worker, each dequeue uses one up.
LEMMA WorkStep ==
    Types /\ Sleepers /\ NoTaskWaitsForASleeper /\ [Next]_vars => NoTaskWaitsForASleeper'
<1> SUFFICES ASSUME Types, Sleepers, NoTaskWaitsForASleeper, [Next]_vars,
                    workAvailable' # {}
             PROVE  queueCount' <= Cardinality(Ready')
  BY DEF NoTaskWaitsForASleeper, Ready
<1>t. /\ wpc \in [Workers -> {"loop", "run", "finish", "exited"}]
      /\ workAvailable \subseteq Workers /\ IsFiniteSet(Workers)
      /\ queueCount \in Nat
      /\ \A w \in workAvailable : wpc[w] = "loop"
      /\ Ready \in SUBSET Workers /\ Ready' \in SUBSET Workers
      /\ workAvailable # {} => queueCount <= Cardinality(Ready)
  BY DEF Types, ThreadTypes, RingTypes, Sleepers, Ready, NoTaskWaitsForASleeper
<1>0. Cardinality(Ready) \in Nat /\ Cardinality(Ready') \in Nat
  BY <1>t, CountBounds
<1>1. ASSUME queueCount' = 0 PROVE queueCount' <= Cardinality(Ready')
  BY <1>0, <1>1
<1>2. ASSUME workAvailable # {}, queueCount' = queueCount, Ready \subseteq Ready'
      PROVE  queueCount' <= Cardinality(Ready')
  <2>1. Cardinality(Ready) <= Cardinality(Ready')
    BY <1>t, <1>2, CountBounds
  <2>2. QED BY <1>t, <1>0, <1>2, <2>1
<1>3. ASSUME NEW w \in Workers, WorkerStep(w)
      PROVE  queueCount' <= Cardinality(Ready')
  <2>1. CASE WorkerSleep(w)
    BY <1>1, <2>1 DEF WorkerSleep, ringVars
  <2>2. CASE WorkerExit(w)
    BY <1>1, <2>2 DEF WorkerExit, MustExit, ringVars
  <2>3. CASE WorkerDequeue(w)
    <3>1. /\ workAvailable' = workAvailable /\ queueCount' = queueCount - 1
          /\ Ready' = Ready \ {w}
      BY <1>t, <2>3 DEF WorkerDequeue, Ready
    <3>2. Cardinality(Ready \ {w}) >= Cardinality(Ready) - 1
      BY <1>t, CountBounds
    <3>3. QED BY <1>t, <1>0, <3>1, <3>2
  <2>4. CASE WorkerRun(w)
    <3>1. workAvailable' = workAvailable /\ queueCount' = queueCount /\ Ready' = Ready
      BY <1>t, <2>4 DEF WorkerRun, Ready, ringVars
    <3>2. QED BY <1>2, <3>1
  <2>5. CASE WorkerFinish(w)
    <3>1. /\ workAvailable' = workAvailable /\ queueCount' = queueCount
          /\ Ready \subseteq Ready'
      BY <1>t, <2>5 DEF WorkerFinish, Ready, ringVars
    <3>2. QED BY <1>2, <3>1
  <2>6. QED BY <1>3, <2>1, <2>2, <2>3, <2>4, <2>5 DEF WorkerStep
<1>4. ASSUME UNCHANGED <<workAvailable, queueCount, wpc>>
      PROVE  queueCount' <= Cardinality(Ready')
  BY <1>2, <1>4 DEF Ready
<1>5. ASSUME NEW c \in Clients, SubmitEnqueue(c)
      PROVE  queueCount' <= Cardinality(Ready')
  <2>1. /\ workAvailable' \in SignalOne(workAvailable)
        /\ queueCount' = queueCount + 1 /\ wpc' = wpc
    BY <1>5 DEF SubmitEnqueue
  <2>2. workAvailable \cap Ready = {}
    BY DEF Ready
  <2>3. Ready \cup (workAvailable \ workAvailable') \subseteq Ready'
    BY <1>t, <2>1 DEF Ready, SignalOne
  <2>4. QED BY <1>t, <2>1, <2>2, <2>3, OneSignalPerItem
<1>6. ASSUME NEW t, SpuriousWake(t) PROVE queueCount' <= Cardinality(Ready')
  <2>1. /\ workAvailable # {} /\ queueCount' = queueCount /\ Ready \subseteq Ready'
    BY <1>6 DEF SpuriousWake, Ready, ringVars
  <2>2. QED BY <1>2, <2>1
<1>7. QED
  BY <1>3, <1>4, <1>5, <1>6 DEF Next, CallStep, ClientBegins, vars, ringVars, SubmitBlock,
     SubmitBatch, WaitBlock, WaitReturn, Begin, CallSubmit, CallParallelFor,
     CallSubmitBatch, CallWait, Leave, Destroy, JoinAll, AllStopped

\* Each dequeue wakes at most one submitter, each enqueue uses one up; a batch
\* sleeps again only when it has filled the queue.
LEMMA SlotStep ==
    Types /\ Sleepers /\ NoSubmitterSleepsOnFreeSlot /\ [Next]_vars
       => NoSubmitterSleepsOnFreeSlot'
<1> SUFFICES ASSUME Types, Sleepers, NoSubmitterSleepsOnFreeSlot, [Next]_vars,
                    queueNotFull' # {}
             PROVE  Capacity - queueCount' <= Cardinality(Hopeful')
  BY DEF NoSubmitterSleepsOnFreeSlot, Hopeful, Submitting
<1>t. /\ call \in [Clients -> {"idle", "submit", "parallel_for", "submit_batch",
                               "wait", "join", "gone"}]
      /\ queueNotFull \subseteq Clients /\ IsFiniteSet(Clients)
      /\ queueCount \in 0 .. Capacity /\ queueCount' \in 0 .. Capacity
      /\ \A c \in queueNotFull : call[c] \in Submitting
      /\ \A c \in workDone : call[c] = "wait"
      /\ Hopeful \in SUBSET Clients /\ Hopeful' \in SUBSET Clients
      /\ queueNotFull # {} => Capacity - queueCount <= Cardinality(Hopeful)
  BY RingTypesStep DEF Types, ThreadTypes, RingTypes, Sleepers, Hopeful, Submitting,
     NoSubmitterSleepsOnFreeSlot
<1>0. Cardinality(Hopeful) \in Nat /\ Cardinality(Hopeful') \in Nat
  BY <1>t, CountBounds
<1>1. ASSUME queueCount' = Capacity PROVE Capacity - queueCount' <= Cardinality(Hopeful')
  BY <1>0, <1>1
<1>2. ASSUME queueNotFull # {}, queueCount' = queueCount, Hopeful \subseteq Hopeful'
      PROVE  Capacity - queueCount' <= Cardinality(Hopeful')
  <2>1. Cardinality(Hopeful) <= Cardinality(Hopeful')
    BY <1>t, <1>2, CountBounds
  <2>2. QED BY <1>t, <1>0, <1>2, <2>1
<1>3. ASSUME UNCHANGED <<queueNotFull, workDone, queueCount, call>>
      PROVE  Capacity - queueCount' <= Cardinality(Hopeful')
  BY <1>2, <1>3 DEF Hopeful, Awake
<1>4. ASSUME NEW w \in Workers, WorkerStep(w)
      PROVE  Capacity - queueCount' <= Cardinality(Hopeful')
  <2>1. CASE WorkerDequeue(w)
    <3>1. /\ queueNotFull' \in SignalOne(queueNotFull) /\ queueCount' = queueCount - 1
          /\ UNCHANGED <<call, workDone>>
      BY <2>1 DEF WorkerDequeue
    <3>2. queueNotFull \cap Hopeful = {}
      BY DEF Hopeful, Awake
    <3>3. Hopeful \cup (queueNotFull \ queueNotFull') \subseteq Hopeful'
      BY <1>t, <3>1 DEF Hopeful, Awake, SignalOne, Submitting
    <3>4. queueNotFull # {}
      BY <3>1 DEF SignalOne
    <3>5. Capacity - queueCount \in Nat /\ Capacity - queueCount' = (Capacity - queueCount) + 1
      BY <1>t, <3>1
    <3>6. (Capacity - queueCount) + 1 <= Cardinality(Hopeful')
      BY <1>t, <3>1, <3>2, <3>3, <3>5, OneSignalPerItem
    <3>7. QED BY <3>5, <3>6
  <2>2. CASE WorkerFinish(w)
    <3>1. /\ UNCHANGED <<queueNotFull, queueCount, call>> /\ workDone' \subseteq workDone
      BY <2>2 DEF WorkerFinish, ringVars
    <3>2. Hopeful \subseteq Hopeful'
      BY <3>1 DEF Hopeful, Awake
    <3>3. QED BY <1>2, <3>1, <3>2
  <2>3. QED BY <1>3, <1>4, <2>1, <2>2 DEF WorkerStep, WorkerSleep, WorkerExit, WorkerRun, ringVars
<1>5. ASSUME NEW c \in Clients, CallStep(c)
      PROVE  Capacity - queueCount' <= Cardinality(Hopeful')
  <2>1. CASE SubmitBlock(c)
    <3>1. queueCount' = queueCount /\ queueCount >= Capacity
      BY <2>1 DEF SubmitBlock, QueueFull, ringVars
    <3>2. QED BY <1>t, <1>1, <3>1
  <2>2. ASSUME UNCHANGED <<queueNotFull, workDone>>, queueCount' > queueCount,
               \A d \in Clients \ {c} : call'[d] = call[d]
        PROVE  Capacity - queueCount' <= Cardinality(Hopeful')
    <3>1. Hopeful \ {c} \subseteq Hopeful'
      BY <2>2 DEF Hopeful, Awake
    <3>2. /\ Cardinality(Hopeful \ {c}) \in Nat
          /\ Cardinality(Hopeful \ {c}) >= Cardinality(Hopeful) - 1
      BY <1>t, CountBounds
    <3>3. Cardinality(Hopeful \ {c}) <= Cardinality(Hopeful')
      <4>1. Hopeful \ {c} \in SUBSET Clients
        BY <1>t
      <4>2. QED BY <1>t, <3>1, <4>1, CountBounds
    <3>4. QED BY <1>t, <1>0, <2>2, <3>2, <3>3
  <2>3. CASE SubmitEnqueue(c)
    <3>1. /\ UNCHANGED <<queueNotFull, workDone>> /\ queueCount' > queueCount
          /\ \A d \in Clients \ {c} : call'[d] = call[d]
      BY <1>t, <2>3 DEF SubmitEnqueue
    <3>2. QED BY <2>2, <3>1
  <2>4. CASE SubmitBatch(c)
    <3> DEFINE room == Capacity - queueCount
               k    == IF Len(args[c]) <= room THEN Len(args[c]) ELSE room
    <3>1. args[c] \in Seq(Tasks) /\ args[c] # <<>> /\ Len(args[c]) \in Nat \ {0}
      <4>1. args[c] \in Seq(Tasks) /\ args[c] # <<>>
        BY <2>4 DEF SubmitBatch, Types, ThreadTypes
      <4>2. QED BY <4>1, TailDropsOne
    <3>2. /\ queueCount' = queueCount + k /\ workDone' = workDone
          /\ \/ /\ k = Len(args[c]) /\ queueNotFull' = queueNotFull
                /\ \E op : call' = [call EXCEPT ![c] = op]
             \/ k # Len(args[c])
      BY <2>4 DEF SubmitBatch
    <3>3. k # Len(args[c]) => queueCount + k = Capacity
      BY <1>t, <3>1
    <3>4. k = Len(args[c]) => queueCount + k > queueCount
      BY <1>t, <3>1
    <3> HIDE DEF k
    <3>5. CASE k # Len(args[c])
      BY <1>1, <3>2, <3>3, <3>5
    <3>6. CASE k = Len(args[c])
      BY <1>t, <2>2, <3>2, <3>4, <3>6
    <3>7. QED BY <3>5, <3>6
  <2>5. CASE WaitBlock(c)
    <3>1. /\ UNCHANGED <<queueNotFull, queueCount, call>> /\ call[c] = "wait"
          /\ workDone' = workDone \cup {c}
      BY <2>5 DEF WaitBlock, ringVars
    <3>2. Hopeful' = Hopeful
      BY <3>1 DEF Hopeful, Awake, Submitting
    <3>3. QED BY <1>2, <3>1, <3>2
  <2>6. CASE WaitReturn(c)
    <3>1. /\ UNCHANGED <<queueNotFull, queueCount, workDone>> /\ call[c] = "wait"
          /\ call' = [call EXCEPT ![c] = "idle"]
      BY <2>6 DEF WaitReturn, ringVars
    <3>2. Hopeful' = Hopeful
      BY <1>t, <3>1 DEF Hopeful, Awake, Submitting
    <3>3. QED BY <1>2, <3>1, <3>2
  <2>7. QED BY <1>5, <2>1, <2>3, <2>4, <2>5, <2>6 DEF CallStep
<1>6. ASSUME UNCHANGED <<queueNotFull, queueCount, workDone>>,
             NEW c \in Clients, call[c] \notin Submitting,
             NEW op, call' = [call EXCEPT ![c] = op]
      PROVE  Capacity - queueCount' <= Cardinality(Hopeful')
  <2>1. Hopeful \subseteq Hopeful'
    BY <1>t, <1>6 DEF Hopeful, Awake
  <2>2. QED BY <1>2, <1>6, <2>1
<1>7. ASSUME NEW c \in Clients, ClientBegins(c)
      PROVE  Capacity - queueCount' <= Cardinality(Hopeful')
  <2>1. ASSUME NEW op, NEW s, Begin(c, op, s)
        PROVE  Capacity - queueCount' <= Cardinality(Hopeful')
    BY <1>6, <2>1 DEF Begin, Submitting, ringVars
  <2>2. CASE Leave(c)
    BY <1>6, <2>2 DEF Leave, Submitting, ringVars
  <2>3. QED BY <1>7, <2>1, <2>2 DEF ClientBegins, CallSubmit, CallParallelFor,
               CallSubmitBatch, CallWait
<1>8. CASE Destroy
  BY <1>6, <1>8, WorkerPoolAssumption DEF Destroy, Submitting, ringVars
<1>9. CASE JoinAll
  BY <1>6, <1>9, WorkerPoolAssumption DEF JoinAll, Submitting, ringVars
<1>10. ASSUME NEW t, SpuriousWake(t)
       PROVE  Capacity - queueCount' <= Cardinality(Hopeful')
  <2>1. /\ queueNotFull # {} /\ queueCount' = queueCount /\ Hopeful \subseteq Hopeful'
    BY <1>10 DEF SpuriousWake, Hopeful, Awake, ringVars
  <2>2. QED BY <1>2, <2>1
<1>11. CASE UNCHANGED vars
  BY <1>3, <1>11 DEF vars
<1>12. QED
  BY <1>4, <1>5, <1>7, <1>8, <1>9, <1>10, <1>11 DEF Next, AllStopped

\* The completion that leaves nothing to do wakes every waiter.
LEMMA WaiterStep ==
    Types /\ NoWaiterSleepsWhenDone /\ [Next]_vars => NoWaiterSleepsWhenDone'
<1> SUFFICES ASSUME Types, NoWaiterSleepsWhenDone, [Next]_vars, workDone' # {}
             PROVE  queueCount' > 0 \/ activeTasks' > 0
  BY DEF NoWaiterSleepsWhenDone
<1>t. /\ queueCount \in Nat /\ activeTasks \in Nat /\ queueCount' \in Nat
      /\ activeTasks' \in Nat
      /\ workDone # {} => queueCount > 0 \/ activeTasks > 0
  <2>1. Types'
    BY RingTypesStep, ThreadTypesStep DEF Types
  <2>2. Cardinality(Busy) \in Nat /\ Cardinality(Busy)' \in Nat
    BY CountBounds DEF Busy
  <2>3. QED BY <2>1, <2>2 DEF Types, ThreadTypes, RingTypes, NoWaiterSleepsWhenDone
<1>1. ASSUME workDone' \subseteq workDone, queueCount' >= queueCount,
             activeTasks' = activeTasks
      PROVE  queueCount' > 0 \/ activeTasks' > 0
  BY <1>t, <1>1
<1>2. ASSUME NEW w \in Workers, WorkerStep(w)
      PROVE  queueCount' > 0 \/ activeTasks' > 0
  BY <1>t, <1>2 DEF WorkerStep, WorkerSleep, WorkerExit, WorkerDequeue, WorkerRun,
     WorkerFinish, LastTaskDone, ringVars
<1>3. ASSUME NEW c \in Clients, CallStep(c)
      PROVE  queueCount' > 0 \/ activeTasks' > 0
  <2>1. CASE SubmitBatch(c)
    <3> DEFINE room == Capacity - queueCount
               k    == IF Len(args[c]) <= room THEN Len(args[c]) ELSE room
    <3>1. /\ queueCount' = queueCount + k
          /\ UNCHANGED <<workDone, activeTasks>>
      BY <2>1 DEF SubmitBatch
    <3>2. k \in Nat
      <4>1. args[c] \in Seq(Tasks) /\ queueCount \in 0 .. Capacity
        BY DEF Types, ThreadTypes, RingTypes
      <4>2. QED BY <4>1
    <3> HIDE DEF k
    <3>3. QED BY <1>t, <1>1, <3>1, <3>2
  <2>2. QED BY <1>t, <1>1, <1>3, <2>1 DEF CallStep, SubmitBlock, SubmitEnqueue, WaitBlock,
               WaitReturn, AllTasksDone, ringVars
<1>4. ASSUME UNCHANGED <<workDone, queueCount, activeTasks>>
      PROVE  queueCount' > 0 \/ activeTasks' > 0
  BY <1>t, <1>4
<1>5. ASSUME NEW t, SpuriousWake(t) PROVE queueCount' > 0 \/ activeTasks' > 0
  BY <1>t, <1>1, <1>5 DEF SpuriousWake, ringVars
<1>6. QED
  BY <1>2, <1>3, <1>4, <1>5 DEF Next, ClientBegins, vars, ringVars, Begin, CallSubmit,
     CallParallelFor, CallSubmitBatch, CallWait, Leave, Destroy, JoinAll, AllStopped

\* Single signals are enough: no worker, submitter or waiter sleeps through the
\* event it waits for, whatever the numbers of threads and the capacity.
THEOREM NoLostWakeUp ==
    Spec => [](NoTaskWaitsForASleeper /\ NoSubmitterSleepsOnFreeSlot /\ NoWaiterSleepsWhenDone)
<1>1. Init => /\ Sleepers /\ NoTaskWaitsForASleeper
              /\ NoSubmitterSleepsOnFreeSlot /\ NoWaiterSleepsWhenDone
  BY DEF Init, Sleepers, NoTaskWaitsForASleeper, NoSubmitterSleepsOnFreeSlot,
     NoWaiterSleepsWhenDone
<1>2. QED
  BY Typing, <1>1, SleepersStep, WorkStep, SlotStep, WaiterStep, PTL DEF Spec

\* A submitter asleep on a full queue is woken for every slot that a dequeue
\* frees: one signal per slot, and a batch submitter that finds room again.
THEOREM SubmittersWoken == Spec => []NoSubmitterSleepsOnFreeSlot
BY NoLostWakeUp, PTL

\* wait() is woken by the completion that leaves the queue empty and no task
\* active, so it never sleeps on a pool that has nothing left to do.
THEOREM WaitersWoken == Spec => []NoWaiterSleepsWhenDone
BY NoLostWakeUp, PTL

-------------------------------------------------------------------------------
(* Refinement: the pool implements the safety part of TaskPool.            *)

\* What the refinement shows of the queue.
Pending == [i \in 1 .. queueCount |-> QueuedAt(i - 1)]

LEMMA PendingIsQueued ==
    ASSUME Types
    PROVE  /\ queueCount \in Nat /\ Pending \in Seq(Tasks) /\ Len(Pending) = queueCount
           /\ Promise!PendingSet = Queued
<1>1. queueCount \in Nat /\ \A i \in 1 .. queueCount : i - 1 \in 0 .. queueCount - 1
  BY DEF Types, RingTypes
<1>2. \A i \in 1 .. queueCount : QueuedAt(i - 1) \in Tasks
  BY <1>1 DEF Types, RingTypes
<1>3. Pending \in [1 .. queueCount -> Tasks]
  BY <1>2 DEF Pending
<1>4. Pending \in Seq(Tasks) /\ Len(Pending) = queueCount
  BY <1>1, <1>3
<1>5. ASSUME NEW i \in 0 .. queueCount - 1 PROVE i + 1 \in 1 .. queueCount /\ (i + 1) - 1 = i
  BY <1>1
<1>6. Promise!PendingSet = {QueuedAt(i - 1) : i \in 1 .. queueCount}
  BY DEF Promise!PendingSet
<1>7. \A i \in 0 .. queueCount - 1 : QueuedAt(i) \in Promise!PendingSet
  <2> TAKE i \in 0 .. queueCount - 1
  <2>1. PICK j \in 1 .. queueCount : j - 1 = i
    BY <1>5
  <2> QED BY <1>6, <2>1
<1>8. QED BY <1>1, <1>4, <1>6, <1>7 DEF Queued

\* Nothing that TaskPool shows changes.
LEMMA PoolStutters ==
    ASSUME UNCHANGED ringVars, Running' = Running, finished' = finished,
           call'[Owner] = "gone" <=> call[Owner] = "gone"
    PROVE  UNCHANGED Promise!poolVars
<1>1. Pending' = Pending
  BY RingStutters DEF Pending, ringVars
<1>2. QED BY <1>1 DEF Promise!poolVars, Pending

\* A dequeue starts the oldest task.
LEMMA DequeueStarts ==
    ASSUME Types, Conserved, NEW w \in Workers, WorkerDequeue(w)
    PROVE  Promise!StartOldest
<1>1. /\ queueCount \in Nat \ {0} /\ queueCount' = queueCount - 1
      /\ queue[queueHead] = QueuedAt(0)
      /\ \A i \in 0 .. queueCount - 2 : QueuedAt(i)' = QueuedAt(i + 1)
  BY DequeueShifts DEF WorkerDequeue, Types, RingTypes
<1>2. /\ wpc[w] = "loop" /\ wpc' = [wpc EXCEPT ![w] = "run"]
      /\ task' = [task EXCEPT ![w] = QueuedAt(0)]
      /\ wpc \in [Workers -> {"loop", "run", "finish", "exited"}]
      /\ task \in [Workers -> Tasks \cup {NoTask}]
      /\ UNCHANGED <<call, finished>>
  BY <1>1 DEF WorkerDequeue, Types, ThreadTypes
<1>3. Running' = Running \cup {QueuedAt(0)}
  BY <1>2 DEF Running
<1>4. Pending \in Seq(Tasks) /\ Len(Pending) = queueCount /\ Pending # <<>>
  BY <1>1, PendingIsQueued
<1>5. Head(Pending) = QueuedAt(0)
  BY <1>1, <1>4 DEF Pending
<1>6. Tail(Pending) = [i \in 1 .. queueCount - 1 |-> QueuedAt(i)]
  <2>1. /\ Tail(Pending) \in Seq(Tasks) /\ Len(Tail(Pending)) = queueCount - 1
        /\ \A i \in 1 .. queueCount - 1 : Tail(Pending)[i] = Pending[i + 1]
    BY <1>4, HeadTailProperties
  <2>2. \A i \in 1 .. queueCount - 1 : i + 1 \in 1 .. queueCount /\ (i + 1) - 1 = i
    BY <1>1
  <2>3. \A i \in 1 .. queueCount - 1 : Pending[i + 1] = QueuedAt(i)
    BY <2>2 DEF Pending
  <2>4. Tail(Pending) \in [1 .. queueCount - 1 -> Tasks]
    BY <2>1, LenProperties
  <2>5. QED BY <2>1, <2>3, <2>4
<1>7. Pending' = [i \in 1 .. queueCount - 1 |-> QueuedAt(i)]
  <2>1. \A i \in 1 .. queueCount - 1 : i - 1 \in 0 .. queueCount - 2 /\ (i - 1) + 1 = i
    BY <1>1
  <2>2. \A i \in 1 .. queueCount - 1 : QueuedAt(i - 1)' = QueuedAt(i)
    BY <1>1, <2>1
  <2>3. Pending' = [i \in 1 .. queueCount - 1 |-> QueuedAt(i - 1)']
    BY <1>1 DEF Pending
  <2>4. QED BY <2>2, <2>3
<1>8. QED
  BY <1>2, <1>3, <1>4, <1>5, <1>6, <1>7 DEF Promise!StartOldest, Pending

\* A task that has run is the one its worker took.
LEMMA RunFinishes ==
    ASSUME Types, Conserved, NEW w \in Workers, WorkerRun(w)
    PROVE  task[w] \in Tasks /\ Promise!FinishTask(task[w])
<1>1. /\ wpc[w] = "run" /\ wpc' = [wpc EXCEPT ![w] = "finish"]
      /\ wpc \in [Workers -> {"loop", "run", "finish", "exited"}]
      /\ finished' = finished \cup {task[w]}
      /\ UNCHANGED <<ringVars, call, task>>
  BY DEF WorkerRun, Types, ThreadTypes
<1>2. Running' = Running \ {task[w]} /\ task[w] \in Running
  BY <1>1 DEF Running, Conserved, NoTaskLostOrDoubled
<1>3. Pending' = Pending
  BY <1>1, RingStutters DEF Pending, ringVars
<1>4. task[w] \in HandedOver /\ HandedOver \subseteq Tasks
  BY <1>2 DEF Conserved, NoTaskLostOrDoubled, HandedOver
<1>5. QED BY <1>1, <1>2, <1>3, <1>4 DEF Promise!FinishTask, Pending

\* An enqueueing critical section submits the arguments it enqueues.
LEMMA EnqueueSubmits ==
    ASSUME Types, Conserved, IsFiniteSet(Tasks), NEW c \in Clients,
           NEW k \in 0 .. Capacity - queueCount, k <= Len(args[c]),
           queue' = PutItems(queue, queueTail, args[c], k),
           queueTail' = SlotAfter(queueTail, k),
           queueCount' = queueCount + k, queueHead' = queueHead,
           UNCHANGED <<wpc, task, finished>>,
           call[Owner] # "gone", call'[Owner] # "gone"
    PROVE  [Promise!PoolNext]_(Promise!poolVars)
<1> DEFINE items == SubSeq(args[c], 1, k)
<1>1. /\ args[c] \in Seq(Tasks) /\ Len(args[c]) \in Nat
      /\ queueCount \in 0 .. Capacity /\ k \in Nat
  BY DEF Types, RingTypes, ThreadTypes
<1>2. /\ \A i \in 0 .. queueCount - 1 : QueuedAt(i)' = QueuedAt(i)
      /\ \A i \in queueCount .. queueCount + k - 1 : QueuedAt(i)' = args[c][i - queueCount + 1]
  BY <1>1, EnqueueAppends DEF Types
<1>3. /\ items \in [1 .. k -> Tasks] /\ Len(items) = k /\ items \in Seq(Tasks)
      /\ \A i \in 1 .. k : items[i] = args[c][i] /\ i \in DOMAIN args[c]
  <2>1. \A i \in 1 .. k : args[c][i] \in Tasks /\ i \in DOMAIN args[c] /\ 1 + i - 1 = i
    BY <1>1
  <2>2. /\ items \in Seq(Tasks) /\ Len(items) = k
        /\ \A i \in 1 .. k : items[i] = args[c][1 + i - 1]
    BY <1>1, <2>1, SubSeqProperties
  <2> HIDE DEF items
  <2>3. QED BY <2>1, <2>2, LenProperties
<1> HIDE DEF items
<1>4. \A i, j \in DOMAIN items : items[i] = items[j] => i = j
  BY <1>3 DEF Conserved, Apart
<1>5. /\ Pending \in Seq(Tasks) /\ Len(Pending) = queueCount
      /\ Promise!PendingSet = Queued
  BY PendingIsQueued
<1>6. Pending' = Pending \o items
  <2>1. Pending' = [i \in 1 .. queueCount + k |-> QueuedAt(i - 1)']
    BY DEF Pending
  <2>2. ASSUME NEW i \in 1 .. queueCount + k
        PROVE  QueuedAt(i - 1)' = IF i <= queueCount THEN Pending[i] ELSE items[i - queueCount]
    <3>1. CASE i <= queueCount
      <4>1. i \in 1 .. queueCount /\ i - 1 \in 0 .. queueCount - 1
        BY <1>1, <3>1
      <4>2. QED BY <1>2, <3>1, <4>1 DEF Pending
    <3>2. CASE ~(i <= queueCount)
      <4>1. /\ i - 1 \in queueCount .. queueCount + k - 1 /\ i - queueCount \in 1 .. k
            /\ (i - 1) - queueCount + 1 = i - queueCount
        BY <1>1, <3>2
      <4>3. QED BY <1>2, <1>3, <3>2, <4>1
    <3>3. QED BY <3>1, <3>2
  <2>3. /\ Pending \o items \in Seq(Tasks) /\ Len(Pending \o items) = queueCount + k
        /\ \A i \in 1 .. queueCount + k :
              (Pending \o items)[i] = IF i <= queueCount THEN Pending[i] ELSE items[i - queueCount]
    BY <1>3, <1>5, ConcatProperties
  <2>4. Pending \o items \in [1 .. queueCount + k -> Tasks]
    BY <2>3, LenProperties
  <2>5. QED BY <2>1, <2>2, <2>3, <2>4
<1>7. Running' = Running /\ finished' = finished
  BY DEF Running
<1>8. CASE k = 0
  <2>1. Pending \o items = Pending
    BY <1>3, <1>5, <1>8
  <2>2. QED BY <1>6, <1>7, <2>1 DEF Promise!poolVars, Pending
<1>9. CASE k # 0
  <2>1. k \in 1 .. Cardinality(Tasks)
    <3>1. IsFiniteSet(1 .. k) /\ Cardinality(1 .. k) = k
      BY <1>1, FS_Interval
    <3>2. items \in Injection(1 .. k, Tasks)
      BY <1>3, <1>4 DEF Injection, IsInjective
    <3>3. Cardinality(1 .. k) <= Cardinality(Tasks) /\ Cardinality(Tasks) \in Nat
      BY <3>2, FS_Injection, FS_CardinalityType
    <3>4. QED BY <1>1, <1>9, <3>1, <3>3
  <2>2. items \in Promise!Submissions
    <3>1. Promise!Cardinality(Tasks) = Cardinality(Tasks)
      BY DEF Promise!Cardinality, Cardinality
    <3>2. QED BY <1>3, <1>4, <2>1, <3>1 DEF Promise!Submissions
  <2>3. ASSUME NEW i \in DOMAIN items PROVE items[i] \notin Queued \cup Running \cup finished
    <3>1. items[i] \in InArgs(c)
      BY <1>3 DEF InArgs
    <3>2. items[i] \notin HandedOver
      BY <3>1 DEF HandedOver
    <3>3. QED BY <3>2 DEF Conserved, NoTaskLostOrDoubled
  <2>4. Promise!SubmitAll(items)
    BY <1>5, <1>6, <1>7, <2>3 DEF Promise!SubmitAll, Pending
  <2>5. QED BY <2>2, <2>4 DEF Promise!PoolNext
<1>10. QED BY <1>8, <1>9

\* Whatever a thread does, TaskPool takes a step of its own or none.
LEMMA StepImplements ==
    ASSUME IsFiniteSet(Tasks), Types, Conserved, Stopping, [Next]_vars
    PROVE  [Promise!PoolNext]_(Promise!poolVars)
<1>t. /\ call \in [Clients -> {"idle", "submit", "parallel_for", "submit_batch",
                               "wait", "join", "gone"}]
      /\ wpc \in [Workers -> {"loop", "run", "finish", "exited"}]
      /\ args \in [Clients -> Seq(Tasks)] /\ queueCount \in 0 .. Capacity
  BY DEF Types, ThreadTypes, RingTypes
<1>1. ASSUME UNCHANGED <<ringVars, task, finished>>,
             \A w \in Workers : wpc'[w] = "run" <=> wpc[w] = "run",
             call'[Owner] = "gone" <=> call[Owner] = "gone"
      PROVE  UNCHANGED Promise!poolVars
  <2>1. Running' = Running
    BY <1>1 DEF Running
  <2>2. QED BY <1>1, <2>1, PoolStutters
<1>2. ASSUME NEW w \in Workers, WorkerStep(w)
      PROVE  [Promise!PoolNext]_(Promise!poolVars)
  <2>1. CASE WorkerDequeue(w)
    BY <2>1, DequeueStarts DEF Promise!PoolNext
  <2>2. CASE WorkerRun(w)
    BY <2>2, RunFinishes DEF Promise!PoolNext
  <2>3. CASE WorkerSleep(w) \/ WorkerExit(w) \/ WorkerFinish(w)
    BY <1>t, <1>1, <2>3 DEF WorkerSleep, WorkerExit, WorkerFinish
  <2>4. QED BY <1>2, <2>1, <2>2, <2>3 DEF WorkerStep
<1>3. ASSUME NEW c \in Clients, call[c] \in {"submit", "parallel_for", "submit_batch", "wait"}
      PROVE  call[Owner] # "gone"
  BY <1>3 DEF Stopping
<1>4. ASSUME NEW c \in Clients, CallStep(c)
      PROVE  [Promise!PoolNext]_(Promise!poolVars)
  <2>1. CASE SubmitEnqueue(c)
    <3>1. args[c] # <<>> /\ args[c] \in Seq(Tasks) /\ queueCount < Capacity
      BY <1>t, <2>1 DEF SubmitEnqueue, QueueFull, Types, ThreadTypes
    <3>2. 1 \in 0 .. Capacity - queueCount /\ 1 <= Len(args[c])
      BY <1>t, <3>1
    <3>3. /\ call[c] \in {"submit", "parallel_for"}
          /\ \/ call' = [call EXCEPT ![c] = ReturnTo(call[c])]
             \/ call' = [call EXCEPT ![c] = call[c]]
      BY <2>1 DEF SubmitEnqueue
    <3>4. call[Owner] # "gone" /\ call'[Owner] # "gone"
      BY <1>t, <1>3, <3>3 DEF ReturnTo
    <3>5. /\ queue' = PutItems(queue, queueTail, args[c], 1)
          /\ queueTail' = SlotAfter(queueTail, 1)
          /\ queueCount' = queueCount + 1 /\ queueHead' = queueHead
          /\ UNCHANGED <<wpc, task, finished>>
      BY <2>1 DEF SubmitEnqueue
    <3>6. QED BY <3>2, <3>4, <3>5, EnqueueSubmits
  <2>2. CASE SubmitBatch(c)
    <3> DEFINE room == Capacity - queueCount
               k    == IF Len(args[c]) <= room THEN Len(args[c]) ELSE room
    <3>1. k \in 0 .. Capacity - queueCount /\ k <= Len(args[c])
      BY <1>t
    <3>2. /\ queue' = PutItems(queue, queueTail, args[c], k)
          /\ queueTail' = SlotAfter(queueTail, k)
          /\ queueCount' = queueCount + k /\ queueHead' = queueHead
          /\ UNCHANGED <<wpc, task, finished>>
          /\ call[c] = "submit_batch"
      BY <2>2 DEF SubmitBatch
    <3>3. call' = [call EXCEPT ![c] = "idle"] \/ call' = call
      BY <2>2 DEF SubmitBatch, ReturnTo
    <3>4. call[Owner] # "gone" /\ call'[Owner] # "gone"
      BY <1>t, <1>3, <3>2, <3>3
    <3> HIDE DEF k
    <3>5. QED BY <3>1, <3>2, <3>4, EnqueueSubmits
  <2>3. CASE SubmitBlock(c) \/ WaitBlock(c)
    BY <1>t, <1>1, <2>3 DEF SubmitBlock, WaitBlock
  <2>4. CASE WaitReturn(c)
    BY <1>t, <1>1, <1>3, <2>4 DEF WaitReturn
  <2>5. QED BY <1>4, <2>1, <2>2, <2>3, <2>4 DEF CallStep
<1>5. ASSUME NEW c \in Clients, ClientBegins(c)
      PROVE  [Promise!PoolNext]_(Promise!poolVars)
  <2>1. ASSUME NEW op \in {"submit", "parallel_for", "submit_batch", "wait"}, NEW s,
               Begin(c, op, s)
        PROVE  UNCHANGED Promise!poolVars
    BY <1>t, <1>1, <2>1 DEF Begin
  <2>2. CASE Leave(c)
    BY <1>t, <1>1, <2>2 DEF Leave
  <2>3. QED BY <1>5, <2>1, <2>2 DEF ClientBegins, CallSubmit, CallParallelFor,
               CallSubmitBatch, CallWait
<1>6. CASE Destroy
  BY <1>t, <1>1, <1>6 DEF Destroy
<1>7. CASE JoinAll
  <2>1. /\ \A w \in Workers : wpc[w] = "exited"
        /\ call' = [call EXCEPT ![Owner] = "gone"]
        /\ UNCHANGED <<ringVars, wpc, task, finished>>
    BY <1>7 DEF JoinAll
  <2>2. queueCount = 0 /\ Running = {}
    BY <2>1 DEF Stopping, Running
  <2>3. Pending = <<>> /\ Pending' = Pending /\ Running' = Running
    <3>1. Pending = <<>>
      BY <2>2, PendingIsQueued
    <3>2. Pending' = Pending
      BY <2>1, RingStutters DEF Pending, ringVars
    <3>3. Running' = Running
      BY <2>1 DEF Running
    <3>4. QED BY <3>1, <3>2, <3>3
  <2>4. call'[Owner] = "gone"
    BY <1>t, <2>1
  <2>5. QED BY <2>1, <2>2, <2>3, <2>4 DEF Promise!PoolNext, Promise!Close, Pending
<1>8. ASSUME NEW t, SpuriousWake(t) PROVE UNCHANGED Promise!poolVars
  BY <1>1, <1>8 DEF SpuriousWake
<1>9. CASE UNCHANGED vars
  BY <1>1, <1>9 DEF vars, ringVars
<1>10. QED
  BY <1>2, <1>4, <1>5, <1>6, <1>7, <1>8, <1>9 DEF Next, AllStopped

\* The pool is a first-in first-out task pool: the ring, the condition variables
\* and the threads of worker_pool.c do nothing that TaskPool does not allow, for
\* any capacity and any number of threads.  (That every task finishes needs
\* fairness and is left to the runs.)
THEOREM ImplementsSafely ==
    ASSUME IsFiniteSet(Tasks) PROVE Spec => Promise!PoolSafeSpec
<1>1. Init => Promise!PoolInit
  <2> SUFFICES ASSUME Init PROVE Promise!PoolInit
    OBVIOUS
  <2>1. Pending = <<>> /\ Running = {} /\ call[Owner] # "gone"
    BY PendingIsQueued, TypesInit DEF Init, Running
  <2>2. QED BY <2>1 DEF Promise!PoolInit, Pending, Init
<1>2. Types /\ Conserved /\ Stopping /\ [Next]_vars => [Promise!PoolNext]_(Promise!poolVars)
  BY StepImplements
<1>3. Init => Stopping
  BY DEF Init, Stopping
<1>4. Spec => []Stopping
  BY Typing, <1>3, StoppingStep, PTL DEF Spec
<1>5. QED
  BY TasksConserved, <1>1, <1>2, <1>4, PTL DEF Spec, Promise!PoolSafeSpec
===============================================================================
