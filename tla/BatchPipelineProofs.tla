-------------------------- MODULE BatchPipelineProofs --------------------------
(***************************************************************************)
(* Theorems about BatchPipeline, for any row groups, columns, batch size,  *)
(* number of threads and number of faults.                                 *)
(***************************************************************************)
EXTENDS BatchPipeline, SequenceTheorems, TLAPS

USE BatchPipelineAssumption

-------------------------------------------------------------------------------
(* The inductive invariant.                                                *)

Steps == {"user", "fill1", "filled", "fill2", "serve", "free", "freed"}

SlotRecords == [rg : 0 .. Len(RowCounts), total : Nat, consumed : Nat]

RingTypes ==
    /\ head \in Slots /\ count \in 0 .. Depth /\ next \in 1 .. Len(RowCounts) + 1
    /\ slot \in [Slots -> SlotRecords]
    /\ pc \in Steps /\ fillCol \in 0 .. NumCols
    /\ batch \in [slot : Slots, first : Nat, n : Nat] \cup {NoBatch}
    /\ cached \in BOOLEAN /\ faults \in Nat

TaskTypes ==
    /\ reader \in [Slots -> [Cols -> 0 .. Len(RowCounts)]]
    /\ buffer \in [Slots -> [Cols -> [rg : 0 .. Len(RowCounts), n : Nat]]]
    /\ taskArgs \in [ArgIndices -> [slot : Slots, col : Cols] \cup {NoArg}]
    /\ pending \in Seq(Tasks) /\ running \subseteq Tasks
    /\ work \in [running -> [slot : Slots, col : Cols, rg : RGs]]

\* A task that was submitted points to an entry that was written, and a
\* written entry to a column reader that was set to some row group.
Pointers ==
    /\ \A i \in DOMAIN pending : taskArgs[pending[i].arg] # NoArg
    /\ \A a \in ArgIndices : taskArgs[a] # NoArg =>
           reader[taskArgs[a].slot][taskArgs[a].col] \in RGs

\* The occupied slots hold the row groups before next, in order, and only the
\* head slot has rows consumed.
HeldSlots ==
    /\ count < next
    /\ \A i \in 0 .. count - 1 :
           /\ slot[SlotAfter(head, i)].rg = next - count + i
           /\ slot[SlotAfter(head, i)].total = RowCounts[next - count + i]
           /\ slot[SlotAfter(head, i)].consumed <= slot[SlotAfter(head, i)].total
           /\ i > 0 => slot[SlotAfter(head, i)].consumed = 0

\* While the tasks of a row group are submitted its slot is prepared.
FillingSlot ==
    fillCol > 0 =>
        /\ Filling /\ Fillable
        /\ slot[SlotAfter(head, count)] = [rg |-> next, total |-> RowCounts[next],
                                           consumed |-> 0]
        /\ \A c \in Cols : reader[SlotAfter(head, count)][c] = next

\* next() serves from a slot it has not finished, and the batch the caller
\* holds is the window just consumed of the head slot.
Serving ==
    /\ pc \in {"fill1", "filled", "fill2"} /\ count > 0 => slot[head].consumed = 0
    /\ pc \in {"fill2", "serve"} => count > 0
    /\ pc = "serve" => slot[head].consumed < slot[head].total \/ slot[head].consumed = 0
    /\ batch # NoBatch => /\ pc = "user" /\ count > 0 /\ batch.slot = head
                          /\ batch.first + batch.n = slot[head].consumed

\* The next row to serve is the first one of the head slot not consumed.
CursorAgrees ==
    cursor = IF count = 0 THEN <<next, 0>>
             ELSE IF pc \in {"user", "free", "freed"}
                  THEN CursorAfter(head, slot[head].consumed)
             ELSE <<next - count, slot[head].consumed>>

\* An unfinished task was submitted for one of the occupied slots, or the one
\* being filled, with the entry of its position in the ring.
InFillOrder(t) ==
    \E p \in 0 .. count :
        /\ t.rg = next - count + p
        /\ p < count \/ t.col < fillCol
        /\ t.arg = ArgIndex(p, t.col)
        /\ taskArgs[t.arg] = [slot |-> SlotAfter(head, p), col |-> t.col]
        /\ t \in running => work[t] = [slot |-> SlotAfter(head, p), col |-> t.col,
                                       rg |-> t.rg]

\* A column of a slot is filled, or an unfinished task fills it.
Filled(p, c) ==
    LET g == next - count + p IN
        /\ reader[SlotAfter(head, p)][c] = g
        /\ \/ RowCounts[g] = 0
           \/ \E t \in InFlight : t.rg = g /\ t.col = c
           \/ buffer[SlotAfter(head, p)][c] = [rg |-> g, n |-> RowCounts[g]]

\* Until a fault, tasks are in flight only during the first fill and the wait
\* that follows it, and the second fill finds nothing to do.
FaultFree ==
    faults = 0 =>
        /\ pc \in {"user", "serve", "free", "fill2"} => InFlight = {}
        /\ pc \in {"filled", "fill2"} => ~Fillable
        /\ \A t \in InFlight : InFillOrder(t)
        /\ \A p \in 0 .. count, c \in Cols : p < count \/ c < fillCol => Filled(p, c)

Types == RingTypes /\ TaskTypes /\ Pointers
Ring == HeldSlots /\ FillingSlot /\ Serving /\ CursorAgrees

-------------------------------------------------------------------------------
(* The constants and the ring.                                             *)

LEMMA Sizes ==
    /\ Len(RowCounts) \in Nat \ {0} /\ Depth \in Nat \ {0}
    /\ TasksPerSlot \in Nat /\ TasksPerSlot > NumCols
    /\ \A g \in RGs : RowCounts[g] \in Nat
<1>1. Len(RowCounts) \in Nat \ {0} /\ \A g \in RGs : RowCounts[g] \in Nat
  BY DEF RGs
<1>2. QED BY <1>1 DEF Depth, TasksPerSlot

LEMMA SlotAfterWraps ==
    ASSUME NEW h \in Slots, NEW n \in 0 .. Depth
    PROVE  /\ SlotAfter(h, n) \in Slots
           /\ SlotAfter(h, n) = IF h + n < Depth THEN h + n ELSE h + n - Depth
<1> HIDE DEF Depth
<1>1. Depth \in Nat \ {0} /\ h \in 0 .. Depth - 1
  BY Sizes DEF Slots
<1>2. PICK s \in Nat : s = h + n /\ s < 2 * Depth
  BY <1>1
<1>3. s % Depth = IF s < Depth THEN s ELSE s - Depth
  BY <1>1, <1>2
<1>4. SlotAfter(h, n) = s % Depth
  BY <1>2 DEF SlotAfter
<1>5. QED BY <1>1, <1>2, <1>3, <1>4 DEF Slots

\* Fewer than Depth places apart are different slots.
LEMMA SlotsApart ==
    ASSUME NEW h \in Slots, NEW m \in 0 .. Depth - 1, NEW n \in 0 .. Depth - 1, m # n
    PROVE  SlotAfter(h, m) # SlotAfter(h, n)
<1> HIDE DEF Depth
<1>1. m \in 0 .. Depth /\ n \in 0 .. Depth /\ h \in 0 .. Depth - 1 /\ Depth \in Nat
  BY Sizes DEF Slots
<1>2. SlotAfter(h, m) = IF h + m < Depth THEN h + m ELSE h + m - Depth
  BY <1>1, SlotAfterWraps
<1>3. SlotAfter(h, n) = IF h + n < Depth THEN h + n ELSE h + n - Depth
  BY <1>1, SlotAfterWraps
<1>4. QED BY <1>1, <1>2, <1>3

\* Retiring the head slot shifts the others by one.
LEMMA SlotAfterShifts ==
    ASSUME NEW h \in Slots
    PROVE  /\ SlotAfter(h, 0) = h
           /\ \A n \in 0 .. Depth - 1 : SlotAfter(SlotAfter(h, 1), n) = SlotAfter(h, n + 1)
<1> HIDE DEF Depth
<1>1. 0 \in 0 .. Depth /\ 1 \in 0 .. Depth /\ h \in 0 .. Depth - 1 /\ Depth \in Nat
  BY Sizes DEF Slots
<1>2. SlotAfter(h, 0) = h
  BY <1>1, SlotAfterWraps
<1>3. ASSUME NEW n \in 0 .. Depth - 1
      PROVE  SlotAfter(SlotAfter(h, 1), n) = SlotAfter(h, n + 1)
  <2>1. n \in 0 .. Depth /\ n + 1 \in 0 .. Depth
    BY <1>1
  <2>2. /\ SlotAfter(h, 1) \in Slots
        /\ SlotAfter(h, 1) = IF h + 1 < Depth THEN h + 1 ELSE h + 1 - Depth
    BY <1>1, SlotAfterWraps
  <2>3. SlotAfter(SlotAfter(h, 1), n) =
          IF SlotAfter(h, 1) + n < Depth THEN SlotAfter(h, 1) + n
          ELSE SlotAfter(h, 1) + n - Depth
    BY <2>1, <2>2, SlotAfterWraps
  <2>4. SlotAfter(h, n + 1) = IF h + (n + 1) < Depth THEN h + (n + 1)
                              ELSE h + (n + 1) - Depth
    BY <2>1, SlotAfterWraps
  <2>5. h + 1 < Depth => SlotAfter(SlotAfter(h, 1), n) = SlotAfter(h, n + 1)
    <3> SUFFICES ASSUME h + 1 < Depth
                 PROVE  SlotAfter(SlotAfter(h, 1), n) = SlotAfter(h, n + 1)
      OBVIOUS
    <3>1. SlotAfter(h, 1) = h + 1
      BY <2>2
    <3>2. SlotAfter(SlotAfter(h, 1), n) = IF (h + 1) + n < Depth THEN (h + 1) + n
                                          ELSE (h + 1) + n - Depth
      BY <2>3, <3>1, Zenon
    <3>3. PICK s \in Nat : s = (h + 1) + n /\ s = h + (n + 1)
      BY <1>1, <2>1
    <3>4. SlotAfter(SlotAfter(h, 1), n) = IF s < Depth THEN s ELSE s - Depth
      BY <1>1, <3>2, <3>3
    <3>5. SlotAfter(h, n + 1) = IF s < Depth THEN s ELSE s - Depth
      BY <1>1, <2>4, <3>3
    <3>6. QED BY <3>4, <3>5
  <2>6. h + 1 >= Depth => SlotAfter(SlotAfter(h, 1), n) = SlotAfter(h, n + 1)
    <3> SUFFICES ASSUME h + 1 >= Depth
                 PROVE  SlotAfter(SlotAfter(h, 1), n) = SlotAfter(h, n + 1)
      OBVIOUS
    <3>1. h + 1 = Depth /\ SlotAfter(h, 1) = 0 /\ 0 + n < Depth /\ 0 + n = n
      BY <1>1, <2>2
    <3>2. SlotAfter(SlotAfter(h, 1), n) = n
      BY <2>3, <3>1, Zenon
    <3>3. h + (n + 1) - Depth = n /\ ~(h + (n + 1) < Depth)
      BY <1>1, <3>1
    <3>4. QED BY <2>4, <3>2, <3>3
  <2>7. QED BY <1>1, <2>5, <2>6
<1>4. QED BY <1>2, <1>3

\* The entries of different positions, or of different columns, differ.
LEMMA ArgIndexApart ==
    ASSUME NEW p \in Nat, NEW q \in Nat, p <= q, NEW c \in Cols, NEW d \in Cols
    PROVE  /\ ArgIndex(p, c) \in Nat
           /\ ArgIndex(p, c) = ArgIndex(q, d) => p = q /\ c = d
           /\ q < Depth => ArgIndex(q, d) \in ArgIndices
<1> HIDE DEF Depth, TasksPerSlot
<1> DEFINE K == TasksPerSlot
<1>1. K \in Nat /\ K > NumCols /\ c \in 1 .. NumCols /\ d \in 1 .. NumCols /\ Depth \in Nat
  BY Sizes DEF Cols
<1>2. ASSUME NEW i \in Nat, NEW j \in Nat, i < j PROVE i * K + K <= j * K
  <2>1. PICK n \in Nat : j = i + 1 + n
    <3>1. j - (i + 1) \in Nat /\ j = i + 1 + (j - (i + 1))
      BY <1>2
    <3>2. QED BY <3>1
  <2>2. j * K = i * K + K + n * K
    BY <1>1, <2>1
  <2>3. n * K \in Nat /\ i * K \in Nat
    BY <1>1
  <2>4. QED BY <1>1, <2>2, <2>3
<1>3. p * K \in Nat /\ q * K \in Nat
  BY <1>1
<1>4. p < q => p * K + K <= q * K
  BY <1>2
<1>5. q < Depth => q * K + K <= Depth * K
  BY <1>1, <1>2
<1>6. p = q => p * K = q * K
  OBVIOUS
<1>7. Depth * K \in Nat
  BY <1>1
<1> HIDE DEF K
<1>8. ArgIndex(p, c) = p * K + c - 1 /\ ArgIndex(q, d) = q * K + d - 1
  BY DEF ArgIndex, K
<1>9. ArgIndex(p, c) \in Nat /\ ArgIndex(q, d) \in Nat
  BY <1>1, <1>3, <1>8
<1>10. ASSUME ArgIndex(p, c) = ArgIndex(q, d) PROVE p = q /\ c = d
  <2>1. PICK a \in Nat, b \in Nat : a = p * K /\ b = q * K
    BY <1>3
  <2>2. a + c = b + d
    BY <1>1, <1>8, <1>10, <2>1
  <2>3. ~(a + K <= b)
    BY <1>1, <2>2
  <2>4. p = q
    BY <1>4, <2>1, <2>3
  <2>5. a = b
    BY <2>1, <2>4
  <2>6. QED BY <1>1, <2>2, <2>4, <2>5
<1>11. ASSUME q < Depth PROVE ArgIndex(q, d) \in 0 .. Depth * K - 1
  <2>1. PICK b \in Nat, m \in Nat : b = q * K /\ m = Depth * K
    BY <1>3, <1>7
  <2>2. b + K <= m
    BY <1>5, <1>11, <2>1
  <2>3. b + d - 1 \in 0 .. m - 1
    BY <1>1, <2>2
  <2>4. QED BY <1>8, <2>1, <2>3
<1>12. QED BY <1>9, <1>10, <1>11 DEF ArgIndices, K

-------------------------------------------------------------------------------
(* Types.                                                                  *)

\* What retiring a slot and consuming rows of it change.
LEMMA SlotUpdates ==
    ASSUME slot \in [Slots -> SlotRecords], NEW s \in Slots
    PROVE  /\ [slot EXCEPT ![s].rg = 0] \in [Slots -> SlotRecords]
           /\ \A n \in Nat : [slot EXCEPT ![s].consumed = n] \in [Slots -> SlotRecords]
           /\ \A n : [slot EXCEPT ![s].consumed = n][s] = [slot[s] EXCEPT !.consumed = n]
           /\ \A u \in Slots \ {s} : /\ [slot EXCEPT ![s].rg = 0][u] = slot[u]
                                    /\ \A n : [slot EXCEPT ![s].consumed = n][u] = slot[u]
<1>1. slot[s] \in SlotRecords
  OBVIOUS
<1>2. [slot[s] EXCEPT !.rg = 0] \in SlotRecords
  <2>1. 0 \in 0 .. Len(RowCounts)
    BY Sizes
  <2>2. QED BY <1>1, <2>1 DEF SlotRecords
<1>3. \A n \in Nat : [slot[s] EXCEPT !.consumed = n] \in SlotRecords
  BY <1>1 DEF SlotRecords
<1>4. [slot EXCEPT ![s].rg = 0] \in [Slots -> SlotRecords]
  BY <1>2
<1>5. ASSUME NEW n \in Nat PROVE [slot EXCEPT ![s].consumed = n] \in [Slots -> SlotRecords]
  <2>1. [slot[s] EXCEPT !.consumed = n] \in SlotRecords
    BY <1>3
  <2>2. QED BY <2>1
<1>6. QED BY <1>4, <1>5

LEMMA TypesInit == Init => Types
<1> SUFFICES ASSUME Init PROVE Types
  OBVIOUS
<1> HIDE DEF Depth
<1>1. 0 \in Slots
  BY Sizes DEF Slots
<1>2. RingTypes
  <2>1. [rg |-> 0, total |-> 0, consumed |-> 0] \in SlotRecords
    BY Sizes DEF SlotRecords
  <2>2. slot \in [Slots -> SlotRecords]
    BY <2>1 DEF Init
  <2>3. /\ 0 \in 0 .. Depth /\ 1 \in 1 .. Len(RowCounts) + 1 /\ 0 \in 0 .. NumCols
    BY Sizes
  <2>4. /\ head = 0 /\ count = 0 /\ next = 1 /\ pc = "user" /\ fillCol = 0
        /\ batch = NoBatch /\ cached = FALSE /\ faults = 0
    BY DEF Init
  <2>5. QED BY <1>1, <2>2, <2>3, <2>4 DEF RingTypes, Steps
<1>3. TaskTypes
  BY <1>1, Sizes DEF Init, TaskTypes, Pool!PoolInit
<1>4. Pointers
  BY DEF Init, Pointers, Pool!PoolInit
<1>5. QED BY <1>2, <1>3, <1>4 DEF Types

\* The slot that pipeline_fill prepares is a free one.
LEMMA FillTarget ==
    ASSUME RingTypes, Fillable
    PROVE  /\ SlotAfter(head, count) \in Slots /\ count \in 0 .. Depth - 1
           /\ next \in RGs /\ RowCounts[next] \in Nat
           /\ \A i \in 0 .. count - 1 : SlotAfter(head, i) # SlotAfter(head, count)
<1> HIDE DEF Depth
<1>1. head \in Slots /\ count \in 0 .. Depth /\ next \in 1 .. Len(RowCounts) + 1
      /\ Depth \in Nat
  BY Sizes DEF RingTypes
<1>2. count < Depth /\ next <= Len(RowCounts)
  BY <1>1 DEF Fillable, RingFull
<1>3. count \in 0 .. Depth - 1 /\ next \in RGs
  BY <1>1, <1>2, Sizes DEF RGs
<1>4. ASSUME NEW i \in 0 .. count - 1 PROVE SlotAfter(head, i) # SlotAfter(head, count)
  <2>1. i \in 0 .. Depth - 1 /\ i # count
    BY <1>1, <1>2
  <2>2. QED BY <1>1, <1>3, <2>1, SlotsApart
<1>5. QED BY <1>1, <1>3, <1>4, Sizes, SlotAfterWraps

LEMMA RingTypesStep ==
    ASSUME RingTypes, FillingSlot, HeldSlots, Serving, [Next]_vars
    PROVE  RingTypes'
<1> HIDE DEF Depth
<1>t. /\ head \in Slots /\ count \in 0 .. Depth /\ next \in 1 .. Len(RowCounts) + 1
      /\ slot \in [Slots -> SlotRecords]
      /\ pc \in Steps /\ fillCol \in 0 .. NumCols
      /\ batch \in [slot : Slots, first : Nat, n : Nat] \cup {NoBatch}
      /\ cached \in BOOLEAN /\ faults \in Nat /\ Depth \in Nat /\ NumCols \in Nat \ {0}
      /\ Len(RowCounts) \in Nat
  BY Sizes DEF RingTypes
<1>1. CASE CallNext
  <2>1. count > 0 => SlotAfter(head, 1) \in Slots /\ count - 1 \in 0 .. Depth
    BY <1>t, SlotAfterWraps
  <2>2. [slot EXCEPT ![head].rg = 0]
          \in [Slots -> SlotRecords]
    BY <1>t, SlotUpdates
  <2>3. UNCHANGED <<next, fillCol, cached, faults>> /\ batch' = NoBatch
        /\ pc' \in {"serve", "fill1"}
    BY <1>1 DEF CallNext
  <2>4. /\ head' \in Slots /\ count' \in 0 .. Depth
        /\ slot' \in [Slots -> SlotRecords]
    <3>1. CASE UNCHANGED <<head, count, slot>>
      BY <1>t, <3>1
    <3>2. CASE /\ count # 0
               /\ slot' = [slot EXCEPT ![head].rg = 0]
               /\ head' = SlotAfter(head, 1)
               /\ count' = count - 1
      BY <1>t, <2>1, <2>2, <3>2
    <3>3. QED BY <1>1, <3>1, <3>2 DEF CallNext
  <2>5. QED BY <1>t, <2>3, <2>4 DEF RingTypes, Steps
<1>2. CASE FillPrepare
  <2>1. SlotAfter(head, count) \in Slots /\ next \in RGs /\ RowCounts[next] \in Nat
    BY <1>2, FillTarget DEF FillPrepare
  <2>2. slot' = [slot EXCEPT ![SlotAfter(head, count)] =
                    [rg |-> next, total |-> RowCounts[next], consumed |-> 0]]
    BY <1>2 DEF FillPrepare
  <2>3. slot' \in [Slots -> SlotRecords]
    <3>1. [rg |-> next, total |-> RowCounts[next], consumed |-> 0] \in SlotRecords
      BY <2>1 DEF SlotRecords, RGs
    <3>2. QED BY <1>t, <2>1, <2>2, <3>1
  <2>4. UNCHANGED <<head, count, next, pc, batch, cached, faults>> /\ fillCol' = 1
    BY <1>2 DEF FillPrepare
  <2>5. QED BY <1>t, <2>3, <2>4 DEF RingTypes
<1>3. CASE FillFails
  BY <1>t, <1>3 DEF FillFails, LeaveFill, RingTypes, Steps
<1>4. CASE FillSubmit
  <2>1. fillCol > 0 /\ count \in 0 .. Depth - 1 /\ next \in 1 .. Len(RowCounts)
    BY <1>4, FillTarget DEF FillSubmit, FillingSlot, RGs
  <2>2. /\ UNCHANGED <<head, slot, pc, batch, cached, faults>>
        /\ \/ fillCol = NumCols /\ fillCol' = 0 /\ count' = count + 1 /\ next' = next + 1
           \/ fillCol # NumCols /\ fillCol' = fillCol + 1 /\ UNCHANGED <<count, next>>
    BY <1>4 DEF FillSubmit
  <2>3. /\ count' \in 0 .. Depth /\ next' \in 1 .. Len(RowCounts) + 1
        /\ fillCol' \in 0 .. NumCols
    BY <1>t, <2>1, <2>2
  <2>4. QED BY <1>t, <2>2, <2>3 DEF RingTypes
<1>5. CASE FillDone \/ ReturnEnd \/ WaitPool \/ ServeFails \/ CallFree \/ FreeDrained
  BY <1>t, <1>5 DEF FillDone, LeaveFill, ReturnEnd, WaitPool, ServeFails, CallFree,
     FreeDrained, RingTypes, Steps
<1>6. CASE Serve
  <2> DEFINE left == slot[head].total - slot[head].consumed
             n    == Smaller(left, BatchSize)
  <2>1. count > 0 /\ slot[head].consumed <= slot[head].total
    <3>1. count > 0
      BY <1>6 DEF Serve, Serving
    <3>2. 0 \in 0 .. count - 1 /\ SlotAfter(head, 0) = head
      BY <1>t, <3>1, SlotAfterShifts
    <3>3. QED BY <3>1, <3>2 DEF HeldSlots
  <2>2. n \in Nat /\ slot[head].consumed \in Nat
    BY <1>t, <2>1 DEF Smaller, SlotRecords
  <2> HIDE DEF n
  <2>3. /\ batch' = [slot |-> head, first |-> slot[head].consumed, n |-> n]
        /\ slot' = [slot EXCEPT ![head].consumed = slot[head].consumed + n]
        /\ cached' = TRUE /\ pc' = "user"
        /\ UNCHANGED <<head, count, next, fillCol, faults>>
    BY <1>6 DEF Serve, n
  <2>4. slot' \in [Slots -> SlotRecords]
    <3>1. slot[head].consumed + n \in Nat
      BY <2>2
    <3>2. QED BY <1>t, <2>3, <3>1, SlotUpdates
  <2>5. QED BY <1>t, <2>2, <2>3, <2>4 DEF RingTypes, Steps
<1>7. CASE TaskStart
  BY <1>t, <1>7 DEF TaskStart, readerVars, RingTypes
<1>8. ASSUME NEW t \in running, TaskDone(t) \/ TaskFails(t) PROVE RingTypes'
  <2>1. UNCHANGED readerVars /\ (faults' = faults \/ faults' = faults + 1)
    BY <1>8 DEF TaskDone, TaskFails, EndWith
  <2>2. QED BY <1>t, <2>1 DEF readerVars, RingTypes
<1>9. CASE UNCHANGED vars
  BY <1>t, <1>9 DEF vars, RingTypes
<1>10. QED
  BY <1>1, <1>2, <1>3, <1>4, <1>5, <1>6, <1>7, <1>8, <1>9
     DEF Next, NextStep, FillStep, PoolStep, Freed

\* The pool's queue of tasks.
PendingTasks == {pending[i] : i \in DOMAIN pending}

LEMMA QueueGrows ==
    ASSUME pending \in Seq(Tasks), NEW x \in Tasks, pending' = pending \o <<x>>
    PROVE  /\ pending' \in Seq(Tasks)
           /\ \A i \in DOMAIN pending' : pending'[i] = x \/ (i \in DOMAIN pending /\ pending'[i] = pending[i])
           /\ PendingTasks' = PendingTasks \cup {x}
<1> DEFINE n == Len(pending)
<1>1. <<x>> \in Seq(Tasks) /\ Len(<<x>>) = 1 /\ n \in Nat /\ <<x>>[1] = x
  OBVIOUS
<1>2. /\ pending' \in Seq(Tasks) /\ Len(pending') = n + 1
      /\ \A i \in 1 .. n + 1 : pending'[i] = IF i <= n THEN pending[i] ELSE <<x>>[i - n]
  BY <1>1, ConcatProperties
<1>3. DOMAIN pending = 1 .. n /\ DOMAIN pending' = 1 .. n + 1
  BY <1>2
<1> HIDE DEF n
<1>4. \A i \in 1 .. n : i \in 1 .. n + 1 /\ pending'[i] = pending[i]
  BY <1>1, <1>2
<1>5. n + 1 \in 1 .. n + 1 /\ pending'[n + 1] = x /\ \A i \in 1 .. n + 1 : i \in 1 .. n \/ i = n + 1
  <2>1. n + 1 \in 1 .. n + 1 /\ ~(n + 1 <= n) /\ (n + 1) - n = 1
    BY <1>1
  <2>2. QED BY <1>1, <1>2, <2>1
<1>6. QED BY <1>2, <1>3, <1>4, <1>5 DEF PendingTasks

LEMMA QueueShrinks ==
    ASSUME pending \in Seq(Tasks), pending # <<>>, pending' = Tail(pending)
    PROVE  /\ pending' \in Seq(Tasks) /\ 1 \in DOMAIN pending
           /\ Head(pending) = pending[1] /\ Head(pending) \in Tasks
           /\ \A i \in DOMAIN pending' : i + 1 \in DOMAIN pending /\ pending'[i] = pending[i + 1]
           /\ PendingTasks = PendingTasks' \cup {Head(pending)}
<1> DEFINE n == Len(pending)
<1>1. /\ pending' \in Seq(Tasks) /\ Len(pending') = n - 1 /\ n \in Nat \ {0}
      /\ \A i \in 1 .. n - 1 : pending'[i] = pending[i + 1]
      /\ Head(pending) = pending[1]
  BY HeadTailProperties
<1>2. DOMAIN pending = 1 .. n /\ DOMAIN pending' = 1 .. n - 1
  BY <1>1
<1> HIDE DEF n
<1>3. /\ 1 \in 1 .. n /\ \A i \in 1 .. n - 1 : i + 1 \in 1 .. n
      /\ \A i \in 1 .. n : i = 1 \/ (i - 1 \in 1 .. n - 1 /\ (i - 1) + 1 = i)
  BY <1>1
<1>4. PendingTasks \subseteq PendingTasks' \cup {Head(pending)}
  <2> SUFFICES ASSUME NEW u \in PendingTasks PROVE u \in PendingTasks' \cup {Head(pending)}
    OBVIOUS
  <2>1. PICK i \in 1 .. n : u = pending[i]
    BY <1>2 DEF PendingTasks
  <2>2. CASE i # 1
    <3>1. i - 1 \in 1 .. n - 1 /\ pending'[i - 1] = u
      BY <1>1, <1>3, <2>1, <2>2
    <3>2. QED BY <1>2, <3>1 DEF PendingTasks
  <2>3. QED BY <1>1, <2>1, <2>2
<1>5. PendingTasks' \cup {Head(pending)} \subseteq PendingTasks
  BY <1>1, <1>2, <1>3 DEF PendingTasks
<1>6. QED BY <1>1, <1>2, <1>3, <1>4, <1>5

\* A pool step works for one task, with its entry's slot, column and reader.
Job(t) == [slot |-> taskArgs[t.arg].slot, col |-> taskArgs[t.arg].col,
           rg |-> reader[taskArgs[t.arg].slot][taskArgs[t.arg].col]]

LEMMA StartedTask ==
    ASSUME Types, TaskStart
    PROVE  /\ Head(pending) \in PendingTasks /\ Head(pending) \in Tasks
           /\ Job(Head(pending)) \in [slot : Slots, col : Cols, rg : RGs]
           /\ running' = running \cup {Head(pending)}
           /\ work' = [u \in running' |-> IF u = Head(pending) THEN Job(Head(pending))
                                          ELSE work[u]]
           /\ PendingTasks = PendingTasks' \cup {Head(pending)}
           /\ UNCHANGED <<readerVars, buffer, faults>>
<1>1. /\ pending \in Seq(Tasks) /\ pending # <<>> /\ pending' = Tail(pending)
      /\ running' = running \cup {Head(pending)}
      /\ work' = [u \in running' |-> IF u = Head(pending) THEN Job(Head(pending))
                                     ELSE work[u]]
      /\ UNCHANGED <<readerVars, buffer, faults>>
  BY DEF TaskStart, Pool!StartOldest, Types, TaskTypes, Job
<1>2. /\ Head(pending) \in Tasks /\ PendingTasks = PendingTasks' \cup {Head(pending)}
      /\ Head(pending) = pending[1] /\ 1 \in DOMAIN pending
  BY <1>1, QueueShrinks
<1> DEFINE t == Head(pending)
<1>3. t.arg \in ArgIndices
  BY <1>2 DEF Tasks
<1>4. taskArgs[t.arg] # NoArg
  BY <1>2 DEF Types, Pointers
<1>5. taskArgs[t.arg] \in [slot : Slots, col : Cols]
  BY <1>3, <1>4 DEF Types, TaskTypes
<1>6. reader[taskArgs[t.arg].slot][taskArgs[t.arg].col] \in RGs
  BY <1>3, <1>4 DEF Types, Pointers
<1>7. taskArgs[t.arg].slot \in Slots /\ taskArgs[t.arg].col \in Cols
  BY <1>5
<1>8. Job(t) \in [slot : Slots, col : Cols, rg : RGs]
  BY <1>6, <1>7 DEF Job
<1>9. QED BY <1>1, <1>2, <1>8

\* A task that ends writes the buffer it works for, and no other.
LEMMA EndedTask ==
    ASSUME TaskTypes, NEW t \in running, NEW n \in Nat, EndWith(t, n)
    PROVE  /\ work[t] \in [slot : Slots, col : Cols, rg : RGs]
           /\ running' = running \ {t} /\ work' = [u \in running' |-> work[u]]
           /\ UNCHANGED readerVars /\ pending' = pending
           /\ buffer' \in [Slots -> [Cols -> [rg : 0 .. Len(RowCounts), n : Nat]]]
           /\ \A s \in Slots, c \in Cols :
                 buffer'[s][c] = IF s = work[t].slot /\ c = work[t].col /\ RowCounts[work[t].rg] # 0
                                 THEN [rg |-> work[t].rg, n |-> n] ELSE buffer[s][c]
<1>1. /\ running' = running \ {t} /\ work' = [u \in running' |-> work[u]]
      /\ UNCHANGED readerVars /\ pending' = pending
      /\ buffer' = [buffer EXCEPT ![work[t].slot][work[t].col] =
                       IF RowCounts[work[t].rg] = 0 THEN @ ELSE [rg |-> work[t].rg, n |-> n]]
  BY DEF EndWith, Pool!FinishTask
<1>2. work[t] \in [slot : Slots, col : Cols, rg : RGs]
  BY DEF TaskTypes
<1> DEFINE S == work[t].slot
           C == work[t].col
           R == [rg : 0 .. Len(RowCounts), n : Nat]
           v == IF RowCounts[work[t].rg] = 0 THEN buffer[S][C] ELSE [rg |-> work[t].rg, n |-> n]
<1>3. S \in Slots /\ C \in Cols /\ work[t].rg \in RGs
  BY <1>2
<1>4. buffer \in [Slots -> [Cols -> R]] /\ buffer[S] \in [Cols -> R]
  BY <1>3 DEF TaskTypes
<1>5. v \in R
  <2>1. work[t].rg \in 0 .. Len(RowCounts)
    BY <1>3, Sizes DEF RGs
  <2>2. QED BY <1>3, <1>4, <2>1
<1>6. buffer' = [buffer EXCEPT ![S] = [buffer[S] EXCEPT ![C] = v]]
  BY <1>1, <1>3, <1>4
<1> HIDE DEF R, v, S, C
<1>7. [buffer[S] EXCEPT ![C] = v] \in [Cols -> R]
  BY <1>4, <1>5
<1>8. buffer' \in [Slots -> [Cols -> R]]
  BY <1>4, <1>6, <1>7
<1>9. ASSUME NEW s \in Slots, NEW c \in Cols
      PROVE  buffer'[s][c] = IF s = S /\ c = C THEN v ELSE buffer[s][c]
  BY <1>3, <1>4, <1>6
<1>10. QED BY <1>1, <1>2, <1>8, <1>9 DEF R, v, S, C

\* pipeline_fill submits one column of the slot it prepared.
NewTask == [rg |-> next, col |-> fillCol, arg |-> ArgIndex(count, fillCol)]
NewEntry == [slot |-> SlotAfter(head, count), col |-> fillCol]

LEMMA SubmittedTask ==
    ASSUME Types, FillingSlot, FillSubmit
    PROVE  /\ Filling /\ Fillable /\ fillCol \in Cols /\ next \in RGs
           /\ count \in 0 .. Depth - 1
           /\ NewTask \in Tasks /\ NewEntry \in [slot : Slots, col : Cols]
           /\ NewTask.arg \in ArgIndices /\ NewEntry # NoArg /\ NewTask \notin running
           /\ taskArgs' = [taskArgs EXCEPT ![NewTask.arg] = NewEntry]
           /\ pending' \in Seq(Tasks) /\ PendingTasks' = PendingTasks \cup {NewTask}
           /\ \A i \in DOMAIN pending' : \/ pending'[i] = NewTask
                                         \/ i \in DOMAIN pending /\ pending'[i] = pending[i]
           /\ UNCHANGED <<head, slot, reader, pc, batch, cached, running, work,
                          buffer, cursor, faults>>
<1> HIDE DEF Depth
<1>1. fillCol > 0 /\ Filling /\ Fillable /\ fillCol \in 0 .. NumCols
  BY DEF FillSubmit, FillingSlot, Types, RingTypes
<1>2. fillCol \in Cols
  BY <1>1 DEF Cols
<1>3. SlotAfter(head, count) \in Slots /\ count \in 0 .. Depth - 1 /\ next \in RGs
  BY <1>1, FillTarget DEF Types
<1>4. count \in Nat /\ count < Depth
  BY <1>3, Sizes
<1>5. ArgIndex(count, fillCol) \in ArgIndices
  BY <1>2, <1>4, ArgIndexApart
<1>6. NewTask \in Tasks /\ NewTask.arg = ArgIndex(count, fillCol)
  BY <1>2, <1>3, <1>5 DEF NewTask, Tasks
<1>7. NewEntry \in [slot : Slots, col : Cols]
  BY <1>2, <1>3 DEF NewEntry
<1>8. NewEntry # NoArg
  <2>1. fillCol # 0
    BY <1>1
  <2>2. NewEntry.col = fillCol /\ NoArg.col = 0
    BY DEF NewEntry, NoArg
  <2>3. QED BY <2>1, <2>2
<1>9. /\ NewTask \notin running
      /\ taskArgs' = [taskArgs EXCEPT ![NewTask.arg] = NewEntry]
      /\ pending' = pending \o <<NewTask>>
      /\ UNCHANGED <<head, slot, reader, pc, batch, cached, running, work,
                     buffer, cursor, faults>>
  BY <1>6 DEF FillSubmit, NewTask, NewEntry, Pool!SubmitAll
<1>10. pending \in Seq(Tasks)
  BY DEF Types, TaskTypes
<1>11. /\ pending' \in Seq(Tasks) /\ PendingTasks' = PendingTasks \cup {NewTask}
       /\ \A i \in DOMAIN pending' : \/ pending'[i] = NewTask
                                     \/ i \in DOMAIN pending /\ pending'[i] = pending[i]
  BY <1>6, <1>9, <1>10, QueueGrows
<1>12. QED BY <1>1, <1>2, <1>3, <1>5, <1>6, <1>7, <1>8, <1>9, <1>11

LEMMA TaskTypesStep ==
    ASSUME Types, FillingSlot, [Next]_vars
    PROVE  TaskTypes' /\ Pointers'
<1> HIDE DEF Depth
<1>t. /\ reader \in [Slots -> [Cols -> 0 .. Len(RowCounts)]]
      /\ buffer \in [Slots -> [Cols -> [rg : 0 .. Len(RowCounts), n : Nat]]]
      /\ taskArgs \in [ArgIndices -> [slot : Slots, col : Cols] \cup {NoArg}]
      /\ pending \in Seq(Tasks) /\ running \subseteq Tasks
      /\ work \in [running -> [slot : Slots, col : Cols, rg : RGs]]
      /\ \A i \in DOMAIN pending : taskArgs[pending[i].arg] # NoArg
      /\ \A a \in ArgIndices : taskArgs[a] # NoArg =>
             reader[taskArgs[a].slot][taskArgs[a].col] \in RGs
  BY DEF Types, TaskTypes, Pointers
<1>1. ASSUME UNCHANGED <<reader, buffer, taskArgs, pending, running, work>>
      PROVE  TaskTypes' /\ Pointers'
  BY <1>t, <1>1 DEF TaskTypes, Pointers
\* a fill that sets some of a slot's readers to the next row group
<1>2. ASSUME NEW K \in SUBSET Cols, NEW s \in Slots, next \in RGs,
             reader' = [reader EXCEPT ![s] = [c \in Cols |-> IF c \in K THEN next ELSE @[c]]],
             UNCHANGED <<buffer, taskArgs, pending, running, work>>
      PROVE  TaskTypes' /\ Pointers'
  <2>1. \A u \in Slots, c \in Cols : reader'[u][c] = IF u = s /\ c \in K THEN next ELSE reader[u][c]
    BY <1>t, <1>2
  <2>2. reader' \in [Slots -> [Cols -> 0 .. Len(RowCounts)]]
    <3>1. next \in 0 .. Len(RowCounts)
      BY <1>2, Sizes DEF RGs
    <3>2. [c \in Cols |-> IF c \in K THEN next ELSE reader[s][c]] \in [Cols -> 0 .. Len(RowCounts)]
      BY <1>t, <3>1
    <3>3. QED BY <1>t, <1>2, <3>2
  <2>3. ASSUME NEW a \in ArgIndices, taskArgs'[a] # NoArg
        PROVE  reader'[taskArgs'[a].slot][taskArgs'[a].col] \in RGs
    <3>1. taskArgs[a] \in [slot : Slots, col : Cols] /\ taskArgs' = taskArgs
      BY <1>t, <1>2, <2>3
    <3>2. /\ taskArgs[a].slot \in Slots /\ taskArgs[a].col \in Cols
          /\ reader[taskArgs[a].slot][taskArgs[a].col] \in RGs
      BY <1>t, <2>3, <3>1
    <3>3. QED BY <1>2, <2>1, <3>1, <3>2
  <2>4. QED BY <1>t, <1>2, <2>2, <2>3 DEF TaskTypes, Pointers
<1>3. CASE FillPrepare
  <2>1. SlotAfter(head, count) \in Slots /\ next \in RGs
    BY <1>3, FillTarget DEF FillPrepare, Types
  <2>2. reader' = [reader EXCEPT ![SlotAfter(head, count)] =
                      [c \in Cols |-> IF c \in Cols THEN next ELSE @[c]]]
    BY <1>3 DEF FillPrepare
  <2>3. QED BY <1>2, <1>3, <2>1, <2>2 DEF FillPrepare, poolVars
<1>4. CASE FillFails
  <2>1. SlotAfter(head, count) \in Slots /\ next \in RGs
    BY <1>4, FillTarget DEF FillFails, Types
  <2>2. PICK k \in 0 .. NumCols :
          reader' = [reader EXCEPT ![SlotAfter(head, count)] =
                        [c \in Cols |-> IF c <= k THEN next ELSE @[c]]]
    BY <1>4 DEF FillFails
  <2> DEFINE K == {c \in Cols : c <= k}
  <2>3. reader' = [reader EXCEPT ![SlotAfter(head, count)] =
                      [c \in Cols |-> IF c \in K THEN next ELSE @[c]]]
    BY <2>2
  <2>4. K \in SUBSET Cols
    OBVIOUS
  <2> HIDE DEF K
  <2>5. QED BY <1>2, <1>4, <2>1, <2>3, <2>4 DEF FillFails, poolVars
<1>5. CASE FillSubmit
  <2>1. /\ NewTask.arg \in ArgIndices /\ NewEntry \in [slot : Slots, col : Cols]
        /\ NewEntry # NoArg /\ taskArgs' = [taskArgs EXCEPT ![NewTask.arg] = NewEntry]
        /\ pending' \in Seq(Tasks)
        /\ \A i \in DOMAIN pending' : \/ pending'[i] = NewTask
                                      \/ i \in DOMAIN pending /\ pending'[i] = pending[i]
        /\ UNCHANGED <<reader, running, work, buffer>>
    BY <1>5, SubmittedTask
  <2>2. \A a \in ArgIndices : taskArgs'[a] = IF a = NewTask.arg THEN NewEntry ELSE taskArgs[a]
    BY <1>t, <2>1
  <2>3. taskArgs' \in [ArgIndices -> [slot : Slots, col : Cols] \cup {NoArg}]
    BY <1>t, <2>1
  <2>4. ASSUME NEW i \in DOMAIN pending' PROVE taskArgs'[pending'[i].arg] # NoArg
    <3>1. CASE pending'[i] = NewTask
      BY <2>1, <2>2, <3>1
    <3>2. CASE i \in DOMAIN pending /\ pending'[i] = pending[i]
      <4>1. pending[i] \in Tasks
        BY <1>t, <3>2
      <4>2. pending[i].arg \in ArgIndices /\ taskArgs[pending[i].arg] # NoArg
        BY <1>t, <3>2, <4>1 DEF Tasks
      <4>3. QED BY <2>1, <2>2, <3>2, <4>2
    <3>3. QED BY <2>1, <3>1, <3>2
  <2>5. NewEntry.slot = SlotAfter(head, count) /\ NewEntry.col = fillCol
    BY DEF NewEntry
  <2>6. reader[NewEntry.slot][NewEntry.col] \in RGs
    <3>1. fillCol > 0 /\ fillCol \in Cols /\ next \in RGs
      BY <1>5, SubmittedTask DEF FillSubmit
    <3>2. QED BY <2>5, <3>1 DEF FillingSlot
  <2>7. ASSUME NEW a \in ArgIndices, taskArgs'[a] # NoArg
        PROVE  reader'[taskArgs'[a].slot][taskArgs'[a].col] \in RGs
    BY <1>t, <2>1, <2>2, <2>6, <2>7
  <2>8. QED BY <1>t, <2>1, <2>3, <2>4, <2>7 DEF TaskTypes, Pointers
<1>6. CASE CallNext \/ FillDone \/ ReturnEnd \/ WaitPool \/ Serve \/ ServeFails \/ CallFree
  BY <1>1, <1>6 DEF CallNext, FillDone, ReturnEnd, WaitPool, Serve, ServeFails, CallFree, poolVars
<1>7. CASE FreeDrained
  BY <1>1, <1>7 DEF FreeDrained, Pool!Close
<1>8. CASE TaskStart
  <2>1. /\ Head(pending) \in Tasks
        /\ Job(Head(pending)) \in [slot : Slots, col : Cols, rg : RGs]
        /\ running' = running \cup {Head(pending)}
        /\ work' = [u \in running' |-> IF u = Head(pending) THEN Job(Head(pending))
                                       ELSE work[u]]
        /\ UNCHANGED <<readerVars, buffer>>
    BY <1>8, StartedTask
  <2>2. pending # <<>> /\ pending' = Tail(pending)
    BY <1>8 DEF TaskStart, Pool!StartOldest
  <2>3. /\ pending' \in Seq(Tasks)
        /\ \A i \in DOMAIN pending' : i + 1 \in DOMAIN pending /\ pending'[i] = pending[i + 1]
    BY <1>t, <2>2, QueueShrinks
  <2>4. running' \subseteq Tasks /\ work' \in [running' -> [slot : Slots, col : Cols, rg : RGs]]
    BY <1>t, <2>1
  <2>5. UNCHANGED <<reader, taskArgs, buffer>>
    BY <2>1 DEF readerVars
  <2>6. \A i \in DOMAIN pending' : taskArgs'[pending'[i].arg] # NoArg
    BY <1>t, <2>3, <2>5
  <2>7. QED BY <1>t, <2>3, <2>4, <2>5, <2>6 DEF TaskTypes, Pointers
<1>9. ASSUME NEW t \in running, TaskDone(t) \/ TaskFails(t) PROVE TaskTypes' /\ Pointers'
  <2>1. PICK n \in Nat : EndWith(t, n)
    <3>1. RowCounts[work[t].rg] \in Nat
      BY <1>t, Sizes
    <3>2. QED BY <1>9, <3>1 DEF TaskDone, TaskFails
  <2>2. /\ running' = running \ {t} /\ work' = [u \in running' |-> work[u]]
        /\ UNCHANGED readerVars /\ pending' = pending
        /\ buffer' \in [Slots -> [Cols -> [rg : 0 .. Len(RowCounts), n : Nat]]]
    BY <2>1, EndedTask DEF Types
  <2>3. running' \subseteq Tasks /\ work' \in [running' -> [slot : Slots, col : Cols, rg : RGs]]
    BY <1>t, <2>2
  <2>4. UNCHANGED <<reader, taskArgs>>
    BY <2>2 DEF readerVars
  <2>5. QED BY <1>t, <2>2, <2>3, <2>4 DEF TaskTypes, Pointers
<1>10. CASE UNCHANGED vars
  BY <1>1, <1>10 DEF vars
<1>11. QED
  BY <1>3, <1>4, <1>5, <1>6, <1>7, <1>8, <1>9, <1>10
     DEF Next, NextStep, FillStep, PoolStep, Freed

-------------------------------------------------------------------------------
(* The ring and the caller.                                                *)

LEMMA HeadSlot ==
    ASSUME RingTypes, HeldSlots, count > 0
    PROVE  /\ next - count \in RGs /\ slot[head].rg = next - count
           /\ slot[head].total = RowCounts[next - count]
           /\ slot[head].consumed \in Nat /\ slot[head].total \in Nat
           /\ slot[head].consumed <= slot[head].total
           /\ 0 \in 0 .. count - 1 /\ SlotAfter(head, 0) = head
<1> HIDE DEF Depth
<1>1. /\ head \in Slots /\ count \in Nat \ {0} /\ next \in 1 .. Len(RowCounts) + 1
      /\ slot[head] \in SlotRecords
  BY Sizes DEF RingTypes
<1>2. 0 \in 0 .. count - 1 /\ SlotAfter(head, 0) = head
  BY <1>1, SlotAfterShifts
<1>3. next - count \in RGs /\ next - count + 0 = next - count
  BY <1>1, Sizes DEF HeldSlots, RGs
<1>4. QED BY <1>1, <1>2, <1>3 DEF HeldSlots, SlotRecords

\* Retiring the head slot leaves the others in their order.
LEMMA Retired ==
    ASSUME RingTypes, count > 0, head' = SlotAfter(head, 1), count' = count - 1, next' = next
    PROVE  \A i \in 0 .. count' : /\ i + 1 \in 0 .. count
                                  /\ i < count' => i + 1 \in 0 .. count - 1
                                  /\ next' - count' + i = next - count + (i + 1)
                                  /\ SlotAfter(head', i) = SlotAfter(head, i + 1)
                                  /\ i < count' => SlotAfter(head', i) # head
<1> HIDE DEF Depth
<1>1. head \in Slots /\ count \in 0 .. Depth /\ next \in Nat /\ Depth \in Nat
  BY Sizes DEF RingTypes
<1>2. SUFFICES ASSUME NEW i \in 0 .. count'
               PROVE  /\ i + 1 \in 0 .. count
                      /\ i < count' => i + 1 \in 0 .. count - 1
                      /\ next' - count' + i = next - count + (i + 1)
                      /\ SlotAfter(head', i) = SlotAfter(head, i + 1)
                      /\ i < count' => SlotAfter(head', i) # head
  OBVIOUS
<1>3. i \in 0 .. Depth - 1
  BY <1>1
<1>4. SlotAfter(head', i) = SlotAfter(head, i + 1) /\ SlotAfter(head, 0) = head
  BY <1>1, <1>3, SlotAfterShifts
<1>5. i < count' => SlotAfter(head, i + 1) # head
  <2>1. i < count' => i + 1 \in 0 .. Depth - 1 /\ 0 \in 0 .. Depth - 1 /\ i + 1 # 0
    BY <1>1
  <2>2. QED BY <1>1, <1>4, <2>1, SlotsApart
<1>6. QED BY <1>1, <1>4, <1>5

\* Entry of next(): the head slot is kept, or retired when it is exhausted.
LEMMA CallNextKeepsOrRetires ==
    ASSUME RingTypes, HeldSlots, CallNext
    PROVE  \/ /\ pc' = "serve" /\ count > 0 /\ slot[head].consumed < slot[head].total
              /\ UNCHANGED <<head, count, slot>>
           \/ pc' = "fill1" /\ count = 0 /\ UNCHANGED <<head, count, slot>>
           \/ /\ pc' = "fill1" /\ count > 0 /\ slot[head].consumed = slot[head].total
              /\ slot' = [slot EXCEPT ![head].rg = 0]
              /\ head' = SlotAfter(head, 1) /\ count' = count - 1
<1>1. count \in Nat
  BY Sizes DEF RingTypes
<1>2. CASE count > 0 /\ ~Exhausted(head)
  BY <1>1, <1>2, HeadSlot DEF CallNext, Exhausted
<1>3. CASE count = 0
  BY <1>3 DEF CallNext
<1>4. CASE count > 0 /\ Exhausted(head)
  <2>1. slot[head].consumed = slot[head].total
    BY <1>4, HeadSlot DEF Exhausted
  <2>2. QED BY <1>4, <2>1 DEF CallNext
<1>5. QED BY <1>1, <1>2, <1>3, <1>4

LEMMA HeldSlotsStep ==
    ASSUME Types, HeldSlots, FillingSlot, Serving, [Next]_vars
    PROVE  HeldSlots'
<1> HIDE DEF Depth
<1>t. /\ head \in Slots /\ count \in 0 .. Depth /\ next \in 1 .. Len(RowCounts) + 1
      /\ slot \in [Slots -> SlotRecords] /\ Depth \in Nat /\ Len(RowCounts) \in Nat
      /\ count \in Nat /\ next \in Nat
  BY Sizes DEF Types, RingTypes
<1>i. \A i \in 0 .. count - 1 : SlotAfter(head, i) \in Slots
  <2> TAKE i \in 0 .. count - 1
  <2>1. i \in 0 .. Depth
    BY <1>t
  <2>2. QED BY <1>t, <2>1, SlotAfterWraps
<1>1. ASSUME UNCHANGED <<head, count, next, slot>> PROVE HeldSlots'
  BY <1>1 DEF HeldSlots
<1>2. CASE CallNext
  <2>1. CASE UNCHANGED <<head, count, slot>>
    BY <1>1, <1>2, <2>1 DEF CallNext
  <2>2. CASE /\ count > 0 /\ slot' = [slot EXCEPT ![head].rg = 0]
             /\ head' = SlotAfter(head, 1) /\ count' = count - 1
    <3>1. next' = next
      BY <1>2 DEF CallNext
    <3>2. ASSUME NEW i \in 0 .. count' - 1
          PROVE  /\ i + 1 \in 0 .. count - 1 /\ i + 1 > 0
                 /\ next' - count' + i = next - count + (i + 1)
                 /\ SlotAfter(head', i) = SlotAfter(head, i + 1)
                 /\ slot'[SlotAfter(head', i)] = slot[SlotAfter(head, i + 1)]
      <4>1. i \in 0 .. count' /\ i < count' /\ i + 1 > 0
        BY <1>t, <2>2
      <4>2. /\ i + 1 \in 0 .. count - 1 /\ next' - count' + i = next - count + (i + 1)
            /\ SlotAfter(head', i) = SlotAfter(head, i + 1) /\ SlotAfter(head', i) # head
        BY <2>2, <3>1, <4>1, Retired DEF Types
      <4>3. SlotAfter(head, i + 1) \in Slots \ {head}
        BY <1>i, <4>2
      <4>4. QED BY <1>t, <2>2, <4>1, <4>2, <4>3, SlotUpdates
    <3>3. count' < next'
      BY <1>t, <2>2, <3>1 DEF HeldSlots
    <3>4. QED BY <3>2, <3>3 DEF HeldSlots
  <2>3. QED BY <1>2, <2>1, <2>2, CallNextKeepsOrRetires DEF Types
<1>3. CASE FillPrepare
  <2>1. /\ SlotAfter(head, count) \in Slots
        /\ \A i \in 0 .. count - 1 : SlotAfter(head, i) # SlotAfter(head, count)
    BY <1>3, FillTarget DEF FillPrepare, Types
  <2>2. /\ slot' = [slot EXCEPT ![SlotAfter(head, count)] =
                       [rg |-> next, total |-> RowCounts[next], consumed |-> 0]]
        /\ UNCHANGED <<head, count, next>>
    BY <1>3 DEF FillPrepare
  <2>3. \A i \in 0 .. count - 1 : slot'[SlotAfter(head, i)] = slot[SlotAfter(head, i)]
    BY <1>t, <1>i, <2>1, <2>2
  <2>4. QED BY <2>2, <2>3 DEF HeldSlots
<1>4. CASE FillSubmit
  <2>1. UNCHANGED <<head, slot>> /\ fillCol > 0
    BY <1>4 DEF FillSubmit
  <2>2. CASE UNCHANGED <<count, next>>
    BY <1>1, <2>1, <2>2
  <2>3. CASE count' = count + 1 /\ next' = next + 1
    <3>1. ASSUME NEW i \in 0 .. count' - 1
          PROVE  /\ slot'[SlotAfter(head', i)].rg = next' - count' + i
                 /\ slot'[SlotAfter(head', i)].total = RowCounts[next' - count' + i]
                 /\ slot'[SlotAfter(head', i)].consumed <= slot'[SlotAfter(head', i)].total
                 /\ i > 0 => slot'[SlotAfter(head', i)].consumed = 0
      <4>1. next' - count' + i = next - count + i
        BY <1>t, <2>3
      <4>2. CASE i \in 0 .. count - 1
        BY <2>1, <4>1, <4>2 DEF HeldSlots
      <4>3. CASE i = count
        <5>1. next - count + i = next
          BY <1>t, <4>3
        <5>2. slot[SlotAfter(head, i)] = [rg |-> next, total |-> RowCounts[next], consumed |-> 0]
              /\ Fillable
          BY <2>1, <4>3 DEF FillingSlot
        <5>3. RowCounts[next] \in Nat
          BY <5>2, FillTarget DEF Types
        <5>4. QED BY <2>1, <4>1, <5>1, <5>2, <5>3
      <4>4. i \in 0 .. count - 1 \/ i = count
        BY <1>t, <2>3
      <4>5. QED BY <4>2, <4>3, <4>4
    <3>2. count' < next'
      BY <1>t, <2>3 DEF HeldSlots
    <3>3. QED BY <3>1, <3>2 DEF HeldSlots
  <2>4. QED BY <1>4, <2>2, <2>3 DEF FillSubmit
<1>5. CASE Serve
  <2> DEFINE left == slot[head].total - slot[head].consumed
             n    == Smaller(left, BatchSize)
  <2>1. count > 0
    BY <1>5 DEF Serve, Serving
  <2>2. /\ slot[head].consumed \in Nat /\ slot[head].total \in Nat
        /\ slot[head].consumed <= slot[head].total /\ SlotAfter(head, 0) = head
    BY <2>1, HeadSlot DEF Types
  <2>3. n \in Nat /\ slot[head].consumed + n <= slot[head].total
    BY <2>2 DEF Smaller
  <2> HIDE DEF n
  <2>4. slot' = [slot EXCEPT ![head].consumed = slot[head].consumed + n]
        /\ UNCHANGED <<head, count, next>>
    BY <1>5 DEF Serve, n
  <2>5. ASSUME NEW i \in 0 .. count - 1
        PROVE  /\ slot'[SlotAfter(head, i)].rg = slot[SlotAfter(head, i)].rg
               /\ slot'[SlotAfter(head, i)].total = slot[SlotAfter(head, i)].total
               /\ slot'[SlotAfter(head, i)].consumed =
                     IF i = 0 THEN slot[head].consumed + n ELSE slot[SlotAfter(head, i)].consumed
    <3>1. CASE i = 0
      <4>1. slot'[head] = [slot[head] EXCEPT !.consumed = slot[head].consumed + n]
        BY <1>t, <2>4, SlotUpdates
      <4>2. slot[head] \in SlotRecords
        BY <1>t
      <4>3. QED BY <2>2, <3>1, <4>1, <4>2 DEF SlotRecords
    <3>2. CASE i # 0
      <4>1. i \in 0 .. Depth - 1 /\ 0 \in 0 .. Depth - 1
        BY <1>t
      <4>2. SlotAfter(head, i) \in Slots \ {head}
        BY <1>t, <1>i, <2>2, <3>2, <4>1, SlotsApart
      <4>3. slot'[SlotAfter(head, i)] = slot[SlotAfter(head, i)]
        BY <1>t, <2>4, <4>2, SlotUpdates
      <4>4. QED BY <3>2, <4>3
    <3>3. QED BY <3>1, <3>2
  <2>6. ASSUME NEW i \in 0 .. count - 1
        PROVE  /\ slot'[SlotAfter(head, i)].rg = next - count + i
               /\ slot'[SlotAfter(head, i)].total = RowCounts[next - count + i]
               /\ slot'[SlotAfter(head, i)].consumed <= slot'[SlotAfter(head, i)].total
               /\ i > 0 => slot'[SlotAfter(head, i)].consumed = 0
    <3>1. CASE i = 0
      BY <2>2, <2>3, <2>5, <3>1 DEF HeldSlots
    <3>2. CASE i # 0
      BY <2>5, <3>2 DEF HeldSlots
    <3>3. QED BY <3>1, <3>2
  <2>7. QED BY <2>4, <2>6 DEF HeldSlots
<1>6. CASE FillFails \/ FillDone \/ ReturnEnd \/ WaitPool \/ ServeFails \/ CallFree \/ FreeDrained
  BY <1>1, <1>6 DEF FillFails, FillDone, ReturnEnd, WaitPool, ServeFails, CallFree, FreeDrained
<1>7. CASE TaskStart
  BY <1>1, <1>7 DEF TaskStart, readerVars
<1>8. ASSUME NEW t \in running, TaskDone(t) \/ TaskFails(t) PROVE HeldSlots'
  <2>1. UNCHANGED readerVars
    BY <1>8 DEF TaskDone, TaskFails, EndWith
  <2>2. QED BY <1>1, <2>1 DEF readerVars
<1>9. CASE UNCHANGED vars
  BY <1>1, <1>9 DEF vars
<1>10. QED
  BY <1>2, <1>3, <1>4, <1>5, <1>6, <1>7, <1>8, <1>9
     DEF Next, NextStep, FillStep, PoolStep, Freed

LEMMA FillingSlotStep ==
    ASSUME Types, FillingSlot, [Next]_vars
    PROVE  FillingSlot'
<1> HIDE DEF Depth
<1>t. reader \in [Slots -> [Cols -> 0 .. Len(RowCounts)]] /\ slot \in [Slots -> SlotRecords]
      /\ fillCol \in 0 .. NumCols /\ NumCols \in Nat
  BY DEF Types, TaskTypes, RingTypes
<1>1. ASSUME UNCHANGED <<head, count, next, slot, reader, pc, fillCol>> PROVE FillingSlot'
  BY <1>1 DEF FillingSlot, Filling, Fillable, RingFull
<1>2. ASSUME fillCol' = 0 PROVE FillingSlot'
  BY <1>2 DEF FillingSlot
<1>3. CASE FillPrepare
  <2>1. /\ SlotAfter(head, count) \in Slots /\ Filling /\ Fillable
        /\ slot' = [slot EXCEPT ![SlotAfter(head, count)] =
                       [rg |-> next, total |-> RowCounts[next], consumed |-> 0]]
        /\ reader' = [reader EXCEPT ![SlotAfter(head, count)] = [c \in Cols |-> next]]
        /\ UNCHANGED <<head, count, next, pc>>
    BY <1>3, FillTarget DEF FillPrepare, Types
  <2>2. /\ slot'[SlotAfter(head, count)] = [rg |-> next, total |-> RowCounts[next], consumed |-> 0]
        /\ \A c \in Cols : reader'[SlotAfter(head, count)][c] = next
    BY <1>t, <2>1
  <2>3. QED BY <2>1, <2>2 DEF FillingSlot, Filling, Fillable, RingFull
<1>4. CASE FillSubmit
  <2>1. fillCol > 0 /\ UNCHANGED <<head, slot, reader, pc>>
    BY <1>4 DEF FillSubmit
  <2>2. CASE fillCol # NumCols
    <3>1. UNCHANGED <<count, next>>
      BY <1>4, <2>2 DEF FillSubmit
    <3>2. QED BY <2>1, <3>1 DEF FillingSlot, Filling, Fillable, RingFull
  <2>3. CASE fillCol = NumCols
    BY <1>2, <1>4, <2>3 DEF FillSubmit
  <2>4. QED BY <2>2, <2>3
<1>5. CASE FillFails \/ FillDone
  BY <1>2, <1>5 DEF FillFails, FillDone
<1>6. CASE CallNext \/ ReturnEnd \/ WaitPool \/ Serve \/ ServeFails \/ CallFree \/ FreeDrained
  <2>1. pc \notin {"fill1", "fill2"} /\ fillCol' = fillCol
    BY <1>6 DEF CallNext, ReturnEnd, WaitPool, Serve, ServeFails, CallFree, FreeDrained
  <2>2. fillCol = 0
    BY <1>t, <2>1 DEF FillingSlot, Filling
  <2>3. QED BY <1>2, <2>1, <2>2
<1>7. CASE TaskStart
  BY <1>1, <1>7 DEF TaskStart, readerVars
<1>8. ASSUME NEW t \in running, TaskDone(t) \/ TaskFails(t) PROVE FillingSlot'
  <2>1. UNCHANGED readerVars
    BY <1>8 DEF TaskDone, TaskFails, EndWith
  <2>2. QED BY <1>1, <2>1 DEF readerVars
<1>9. CASE UNCHANGED vars
  BY <1>1, <1>9 DEF vars
<1>10. QED
  BY <1>3, <1>4, <1>5, <1>6, <1>7, <1>8, <1>9
     DEF Next, NextStep, FillStep, PoolStep, Freed

LEMMA ServingStep ==
    ASSUME Types, Ring, [Next]_vars
    PROVE  Serving' /\ CursorAgrees'
<1> HIDE DEF Depth
<1> USE DEF Ring
<1>t. /\ head \in Slots /\ count \in 0 .. Depth /\ count \in Nat /\ next \in Nat
      /\ slot \in [Slots -> SlotRecords] /\ Depth \in Nat
      /\ pc \in Steps
  BY Sizes DEF Types, RingTypes
<1>1. ASSUME UNCHANGED <<head, count, next, slot, pc, batch, cursor>>
      PROVE  Serving' /\ CursorAgrees'
  BY <1>1 DEF Serving, CursorAgrees, CursorAfter
<1>h. count > 0 => /\ slot[head].rg = next - count /\ slot[head].total = RowCounts[next - count]
                   /\ slot[head].consumed \in Nat /\ slot[head].total \in Nat
                   /\ slot[head].consumed <= slot[head].total /\ SlotAfter(head, 0) = head
  BY HeadSlot DEF Types
<1>2. CASE CallNext
  <2>1. pc = "user" /\ batch' = NoBatch /\ UNCHANGED <<next, cursor>>
    BY <1>2 DEF CallNext
  <2>2. cursor = IF count = 0 THEN <<next, 0>> ELSE CursorAfter(head, slot[head].consumed)
    BY <2>1 DEF CursorAgrees
  <2>3. CASE /\ pc' = "serve" /\ count > 0 /\ slot[head].consumed < slot[head].total
             /\ UNCHANGED <<head, count, slot>>
    <3>1. cursor = <<next - count, slot[head].consumed>>
      BY <1>h, <2>2, <2>3 DEF CursorAfter
    <3>2. QED BY <1>t, <2>1, <2>3, <3>1 DEF Serving, CursorAgrees
  <2>4. CASE pc' = "fill1" /\ count = 0 /\ UNCHANGED <<head, count, slot>>
    BY <2>1, <2>2, <2>4 DEF Serving, CursorAgrees
  <2>5. CASE /\ pc' = "fill1" /\ count > 0 /\ slot[head].consumed = slot[head].total
             /\ slot' = [slot EXCEPT ![head].rg = 0]
             /\ head' = SlotAfter(head, 1) /\ count' = count - 1
    <3>1. cursor = <<next - count + 1, 0>> /\ next - count + 1 = next' - count'
      <4>1. cursor = CursorAfter(head, slot[head].consumed) /\ slot[head].consumed >= slot[head].total
        BY <1>t, <1>h, <2>2, <2>5
      <4>2. cursor = <<slot[head].rg + 1, 0>>
        BY <4>1 DEF CursorAfter
      <4>3. QED BY <1>t, <1>h, <2>1, <2>5, <4>2
    <3>2. ASSUME count' > 0 PROVE slot'[head'].consumed = 0
      <4>1. 0 \in 0 .. count' /\ 0 < count' /\ count' \in Nat
        BY <1>t, <2>5, <3>2
      <4>2. /\ 0 + 1 \in 0 .. count - 1
            /\ SlotAfter(head', 0) = SlotAfter(head, 0 + 1) /\ SlotAfter(head', 0) # head
        BY <2>1, <2>5, <4>1, Retired DEF Types
      <4>3. 1 \in 0 .. count - 1 /\ head' # head /\ head' \in Slots /\ 1 > 0
        <5>1. 1 \in 0 .. Depth
          BY <1>t, <4>2
        <5>2. head' \in Slots
          BY <1>t, <2>5, <5>1, SlotAfterWraps
        <5>3. SlotAfter(head', 0) = head'
          BY <5>2, SlotAfterShifts
        <5>4. QED BY <4>2, <5>2, <5>3
      <4>4. slot[head'].consumed = 0
        BY <2>5, <4>3 DEF HeldSlots
      <4>5. slot'[head'] = slot[head']
        BY <1>t, <2>5, <4>3, SlotUpdates
      <4>6. QED BY <4>4, <4>5
    <3>3. count' = 0 => next' - count' = next'
      BY <1>t, <2>1, <2>5
    <3>4. count' = 0 \/ count' > 0
      BY <1>t, <2>5
    <3>5. CursorAgrees'
      BY <2>1, <2>5, <3>1, <3>2, <3>3, <3>4 DEF CursorAgrees
    <3>6. QED BY <2>1, <2>5, <3>2, <3>5 DEF Serving
  <2>6. QED BY <1>2, <2>3, <2>4, <2>5, CallNextKeepsOrRetires DEF Types
<1>3. CASE FillPrepare
  <2>1. /\ SlotAfter(head, count) \in Slots /\ Filling
        /\ \A i \in 0 .. count - 1 : SlotAfter(head, i) # SlotAfter(head, count)
    BY <1>3, FillTarget DEF FillPrepare, Types
  <2>2. /\ slot' = [slot EXCEPT ![SlotAfter(head, count)] =
                       [rg |-> next, total |-> RowCounts[next], consumed |-> 0]]
        /\ UNCHANGED <<head, count, next, pc, batch, cursor>>
    BY <1>3 DEF FillPrepare
  <2>3. count > 0 => slot'[head] = slot[head]
    <3>1. count > 0 => 0 \in 0 .. count - 1
      BY <1>t
    <3>2. QED BY <1>t, <1>h, <2>1, <2>2, <3>1
  <2>4. pc' \in {"fill1", "fill2"} /\ pc' = pc
    BY <2>1, <2>2 DEF Filling
  <2>5. CursorAgrees'
    <3>1. CASE count = 0
      BY <2>2, <3>1 DEF CursorAgrees
    <3>2. CASE count > 0
      BY <2>2, <2>3, <2>4, <3>2 DEF CursorAgrees
    <3>3. QED BY <1>t, <3>1, <3>2
  <2>6. QED BY <2>2, <2>3, <2>4, <2>5 DEF Serving
<1>4. CASE FillSubmit
  <2>1. fillCol > 0 /\ Filling /\ UNCHANGED <<head, slot, pc, batch, cursor>>
    BY <1>4 DEF FillSubmit
  <2>2. CASE UNCHANGED <<count, next>>
    BY <1>1, <2>1, <2>2
  <2>3. CASE count' = count + 1 /\ next' = next + 1
    <3>1. next' - count' = next - count /\ count' > 0 /\ count' # 0
      BY <1>t, <2>3
    <3>2. slot[head].consumed = 0
      <4>1. CASE count = 0
        <5>1. slot[SlotAfter(head, 0)] = [rg |-> next, total |-> RowCounts[next], consumed |-> 0]
              /\ SlotAfter(head, 0) = head
          BY <1>t, <2>1, <4>1, SlotAfterShifts DEF FillingSlot
        <5>2. QED BY <5>1
      <4>2. CASE count > 0
        BY <2>1, <4>2 DEF Serving, Filling
      <4>3. QED BY <1>t, <4>1, <4>2
    <3>3. count = 0 => next - count = next
      BY <1>t
    <3>4. cursor = <<next - count, 0>>
      BY <2>1, <3>2, <3>3 DEF CursorAgrees, Filling
    <3>5. pc' \in {"fill1", "fill2"}
      BY <2>1 DEF Filling
    <3>6. batch' = NoBatch
      BY <2>1, <3>5 DEF Serving
    <3>7. CursorAgrees'
      BY <2>1, <3>1, <3>2, <3>4, <3>5 DEF CursorAgrees
    <3>8. QED BY <2>1, <3>1, <3>2, <3>5, <3>6, <3>7 DEF Serving
  <2>4. QED BY <1>4, <2>2, <2>3 DEF FillSubmit
<1>5. CASE FillFails \/ FillDone \/ WaitPool
  <2>1. /\ UNCHANGED <<head, count, next, slot, batch, cursor>>
        /\ pc \in {"fill1", "filled", "fill2"}
        /\ \/ pc' = "filled"
           \/ pc' = "serve" /\ pc = "fill2"
           \/ pc' = "fill2" /\ count > 0
    BY <1>5 DEF FillFails, FillDone, WaitPool, Filling, LeaveFill
  <2>2. QED BY <2>1 DEF Serving, CursorAgrees
<1>6. CASE ReturnEnd
  BY <1>6 DEF ReturnEnd, Serving, CursorAgrees
<1>7. CASE Serve
  <2> DEFINE left == slot[head].total - slot[head].consumed
             n    == Smaller(left, BatchSize)
             upTo == slot[head].consumed + n
  <2>1. count > 0
    BY <1>7 DEF Serve, Serving
  <2>2. /\ batch' = [slot |-> head, first |-> slot[head].consumed, n |-> n]
        /\ slot' = [slot EXCEPT ![head].consumed = upTo]
        /\ cursor' = CursorAfter(head, upTo) /\ pc' = "user"
        /\ UNCHANGED <<head, count, next>>
    BY <1>7 DEF Serve
  <2> HIDE DEF n
  <2>3. slot[head] \in SlotRecords /\ slot'[head] = [slot[head] EXCEPT !.consumed = upTo]
    BY <1>t, <2>2, SlotUpdates
  <2> HIDE DEF upTo
  <2>4. slot'[head].rg = slot[head].rg /\ slot'[head].total = slot[head].total
        /\ slot'[head].consumed = upTo
    BY <2>3 DEF SlotRecords
  <2>5. CursorAgrees'
    BY <1>t, <2>1, <2>2, <2>4 DEF CursorAgrees, CursorAfter
  <2>6. batch'.slot = head' /\ batch'.first + batch'.n = slot'[head'].consumed
    BY <2>2, <2>4 DEF upTo
  <2>7. QED BY <2>1, <2>2, <2>5, <2>6 DEF Serving
<1>8. CASE ServeFails
  <2>1. /\ pc = "serve" /\ pc' = "user" /\ cursor' = CursorAfter(head, slot[head].consumed)
        /\ UNCHANGED <<head, count, next, slot, batch>> /\ count > 0
    BY <1>8 DEF ServeFails, Serving
  <2>2. QED BY <1>t, <2>1 DEF Serving, CursorAgrees, CursorAfter
<1>9. CASE CallFree \/ FreeDrained
  <2>1. /\ UNCHANGED <<head, count, next, slot, cursor>>
        /\ \/ pc = "user" /\ pc' = "free" /\ batch' = NoBatch
           \/ pc = "free" /\ pc' = "freed" /\ batch' = batch
    BY <1>9 DEF CallFree, FreeDrained
  <2>2. QED BY <2>1 DEF Serving, CursorAgrees, CursorAfter
<1>10. CASE TaskStart
  BY <1>1, <1>10 DEF TaskStart, readerVars
<1>11. ASSUME NEW t \in running, TaskDone(t) \/ TaskFails(t) PROVE Serving' /\ CursorAgrees'
  <2>1. UNCHANGED readerVars
    BY <1>11 DEF TaskDone, TaskFails, EndWith
  <2>2. QED BY <1>1, <2>1 DEF readerVars
<1>12. CASE UNCHANGED vars
  BY <1>1, <1>12 DEF vars
<1>13. QED
  BY <1>2, <1>3, <1>4, <1>5, <1>6, <1>7, <1>8, <1>9, <1>10, <1>11, <1>12
     DEF Next, NextStep, FillStep, PoolStep, Freed

-------------------------------------------------------------------------------
(* The tasks.                                                              *)

LEMMA InFlightIs == InFlight = running \cup PendingTasks
BY DEF InFlight, PendingTasks

LEMMA InFlightTasks ==
    ASSUME Types, NEW t \in InFlight PROVE t \in Tasks /\ t.col \in Cols /\ t.rg \in RGs
<1>1. t \in Tasks
  BY DEF InFlight, Types, TaskTypes
<1>2. QED BY <1>1 DEF Tasks

\* Where a column's slot lies: the slot being filled is a free one.
LEMMA Position ==
    ASSUME RingTypes, FillingSlot, NEW p \in 0 .. count, NEW c \in Cols, p < count \/ c < fillCol
    PROVE  p \in 0 .. Depth - 1 /\ p \in Nat /\ SlotAfter(head, p) \in Slots
<1> HIDE DEF Depth
<1>1. head \in Slots /\ count \in 0 .. Depth /\ Depth \in Nat /\ c \in Nat \ {0} /\ p \in Nat
  BY Sizes DEF RingTypes, Cols
<1>2. p \in 0 .. Depth - 1
  <2>1. CASE p < count
    BY <1>1, <2>1
  <2>2. CASE c < fillCol
    <3>1. Fillable
      <4>1. fillCol > 0
        BY <1>1, <2>2 DEF RingTypes
      <4>2. QED BY <4>1 DEF FillingSlot
    <3>2. count \in 0 .. Depth - 1
      BY <3>1, FillTarget
    <3>3. QED BY <1>1, <3>2
  <2>3. QED BY <2>1, <2>2
<1>3. p \in 0 .. Depth
  BY <1>1, <1>2
<1>4. QED BY <1>1, <1>2, <1>3, SlotAfterWraps

\* While the ring, the readers and the tasks stay as they are, so does what
\* the tasks are for.
LEMMA OrderStutters ==
    ASSUME UNCHANGED <<head, count, next, fillCol, reader, taskArgs, buffer, pending, running, work>>
    PROVE  /\ InFlight' = InFlight
           /\ \A t : InFillOrder(t) <=> InFillOrder(t)'
           /\ \A p, c : Filled(p, c) <=> Filled(p, c)'
<1>1. InFlight' = InFlight
  BY DEF InFlight
<1>2. \A t : InFillOrder(t) <=> InFillOrder(t)'
  BY DEF InFillOrder
<1>3. \A p, c : Filled(p, c) <=> Filled(p, c)'
  BY <1>1 DEF Filled
<1>4. QED BY <1>1, <1>2, <1>3

LEMMA SubmitKeepsOrder ==
    ASSUME Types, Ring, FaultFree, faults = 0, FillSubmit
    PROVE  /\ pc' = "fill1"
           /\ \A t \in InFlight' : InFillOrder(t)'
           /\ \A p \in 0 .. count', c \in Cols : p < count' \/ c < fillCol' => Filled(p, c)'
<1> HIDE DEF Depth
<1> USE DEF Ring
<1>1. /\ Filling /\ Fillable /\ fillCol \in Cols /\ next \in RGs
      /\ count \in 0 .. Depth - 1
      /\ NewTask \in Tasks /\ NewTask.arg \in ArgIndices /\ NewTask \notin running
      /\ taskArgs' = [taskArgs EXCEPT ![NewTask.arg] = NewEntry]
      /\ PendingTasks' = PendingTasks \cup {NewTask}
      /\ UNCHANGED <<head, slot, reader, pc, batch, cached, running, work,
                     buffer, cursor, faults>>
  BY SubmittedTask
<1>2. InFlight' = InFlight \cup {NewTask}
  BY <1>1 DEF InFlight, PendingTasks
<1>3. pc' = "fill1"
  BY <1>1 DEF FaultFree, Filling
<1>4. /\ next' - count' = next - count
      /\ \/ count' = count + 1 /\ fillCol' = 0 /\ fillCol = NumCols
         \/ count' = count /\ fillCol' = fillCol + 1
  <2>1. next \in Nat /\ count \in Nat
    BY Sizes DEF Types, RingTypes
  <2>2. QED BY <2>1 DEF FillSubmit
<1>t. count \in Nat /\ fillCol \in 1 .. NumCols /\ NumCols \in Nat /\ next \in Nat /\ Depth \in Nat
  BY <1>1, Sizes DEF Cols, RGs
<1>5. ASSUME NEW t \in InFlight PROVE InFillOrder(t)'
  <2>1. PICK p \in 0 .. count :
          /\ t.rg = next - count + p
          /\ p < count \/ t.col < fillCol
          /\ t.arg = ArgIndex(p, t.col)
          /\ taskArgs[t.arg] = [slot |-> SlotAfter(head, p), col |-> t.col]
          /\ t \in running => work[t] = [slot |-> SlotAfter(head, p), col |-> t.col, rg |-> t.rg]
    BY DEF FaultFree, InFillOrder
  <2>2. t \in Tasks
    BY InFlightIs DEF Types, TaskTypes, PendingTasks
  <2>3. t.col \in Cols /\ t.arg \in ArgIndices
    BY <2>2 DEF Tasks
  <2>4. t.arg # NewTask.arg
    <3>1. p \in Nat /\ p <= count /\ (p = count => t.col # fillCol)
      BY <1>t, <2>1, <2>3 DEF Cols
    <3>2. NewTask.arg = ArgIndex(count, fillCol)
      BY DEF NewTask
    <3>3. ArgIndex(p, t.col) = ArgIndex(count, fillCol) => p = count /\ t.col = fillCol
      BY <1>1, <1>t, <2>3, <3>1, ArgIndexApart
    <3>4. QED BY <2>1, <3>1, <3>2, <3>3
  <2>5. taskArgs'[t.arg] = taskArgs[t.arg]
    BY <1>1, <2>3, <2>4 DEF Types, TaskTypes
  <2>6. p \in 0 .. count' /\ (p < count' \/ t.col < fillCol')
    BY <1>t, <1>4, <2>1, <2>3 DEF Cols
  <2>7. t.rg = next' - count' + p
    BY <1>4, <2>1
  <2>8. QED BY <1>1, <2>1, <2>5, <2>6, <2>7 DEF InFillOrder
<1>6. ASSUME NEW t, t = NewTask PROVE InFillOrder(t)'
  <2>1. taskArgs'[t.arg] = [slot |-> SlotAfter(head', count), col |-> fillCol]
    BY <1>1, <1>6 DEF Types, TaskTypes, NewEntry, SlotAfter
  <2>2. next = next' - count' + count
    BY <1>t, <1>4
  <2>3. count \in 0 .. count' /\ (count < count' \/ fillCol < fillCol')
    BY <1>t, <1>4
  <2>4. /\ t.rg = next /\ t.col = fillCol /\ t.arg = ArgIndex(count, fillCol)
        /\ t \notin running'
    BY <1>1, <1>6 DEF NewTask
  <2>5. QED BY <2>1, <2>2, <2>3, <2>4 DEF InFillOrder
<1>7. ASSUME NEW p \in 0 .. count', NEW c \in Cols, p < count' \/ c < fillCol'
      PROVE  Filled(p, c)'
  <2>1. next' - count' + p = next - count + p
    BY <1>4
  <2>2. CASE p \in 0 .. count /\ (p < count \/ c < fillCol)
    <3>1. Filled(p, c)
      BY <2>2 DEF FaultFree
    <3>2. QED BY <1>1, <1>2, <2>1, <3>1 DEF Filled
  <2>3. CASE p = count /\ c = fillCol
    <3>1. next - count + p = next
      BY <1>t, <2>3
    <3>2. reader[SlotAfter(head, p)][c] = next
      BY <1>1, <1>t, <2>3 DEF FillingSlot
    <3>3. NewTask.rg = next /\ NewTask.col = c
      BY <2>3 DEF NewTask
    <3>4. QED BY <1>1, <1>2, <2>1, <3>1, <3>2, <3>3 DEF Filled
  <2>4. (p \in 0 .. count /\ (p < count \/ c < fillCol)) \/ (p = count /\ c = fillCol)
    <3>1. p \in Nat /\ c \in 1 .. NumCols
      BY <1>t, <1>4 DEF Cols
    <3>2. CASE count' = count + 1 /\ fillCol' = 0 /\ fillCol = NumCols
      BY <1>t, <1>7, <3>1, <3>2
    <3>3. CASE count' = count /\ fillCol' = fillCol + 1
      BY <1>t, <1>7, <3>1, <3>3
    <3>4. QED BY <1>4, <3>2, <3>3
  <2>5. QED BY <2>2, <2>3, <2>4
<1>8. QED BY <1>2, <1>3, <1>5, <1>6, <1>7

LEMMA StartKeepsOrder ==
    ASSUME Types, Ring, FaultFree, faults = 0, TaskStart
    PROVE  /\ InFlight' = InFlight
           /\ \A t \in InFlight : InFillOrder(t)'
           /\ \A p, c : Filled(p, c) => Filled(p, c)'
<1> HIDE DEF Depth
<1> USE DEF Ring
<1>1. /\ Head(pending) \in PendingTasks /\ running' = running \cup {Head(pending)}
      /\ work' = [u \in running' |-> IF u = Head(pending) THEN Job(Head(pending))
                                     ELSE work[u]]
      /\ PendingTasks = PendingTasks' \cup {Head(pending)}
      /\ UNCHANGED <<readerVars, buffer, faults>>
  BY StartedTask
<1>2. InFlight' = InFlight
  <2>1. InFlight' = running' \cup PendingTasks'
    BY DEF InFlight, PendingTasks
  <2>2. QED BY <1>1, <2>1, InFlightIs
<1>3. UNCHANGED <<head, count, next, fillCol, reader, taskArgs>>
  BY <1>1 DEF readerVars
<1>4. ASSUME NEW t \in InFlight PROVE InFillOrder(t)'
  <2>1. PICK p \in 0 .. count :
          /\ t.rg = next - count + p
          /\ p < count \/ t.col < fillCol
          /\ t.arg = ArgIndex(p, t.col)
          /\ taskArgs[t.arg] = [slot |-> SlotAfter(head, p), col |-> t.col]
          /\ t \in running => work[t] = [slot |-> SlotAfter(head, p), col |-> t.col, rg |-> t.rg]
    BY DEF FaultFree, InFillOrder
  <2>2. t.col \in Cols
    BY InFlightTasks
  <2>3. Filled(p, t.col)
    BY <2>1, <2>2 DEF FaultFree
  <2>4. Job(t) = [slot |-> SlotAfter(head, p), col |-> t.col, rg |-> t.rg]
    BY <2>1, <2>3 DEF Job, Filled
  <2>5. t \in running' => work'[t] = [slot |-> SlotAfter(head, p), col |-> t.col, rg |-> t.rg]
    BY <1>1, <2>1, <2>4
  <2>6. QED BY <1>3, <2>1, <2>5 DEF InFillOrder, SlotAfter
<1>5. ASSUME NEW p, NEW c, Filled(p, c) PROVE Filled(p, c)'
  BY <1>1, <1>2, <1>3, <1>5 DEF Filled, SlotAfter
<1>6. QED BY <1>2, <1>4, <1>5

LEMMA EndKeepsOrder ==
    ASSUME Types, Ring, FaultFree, faults = 0, NEW t \in running, TaskDone(t)
    PROVE  /\ InFlight' \subseteq InFlight
           /\ \A u \in InFlight' : InFillOrder(u)'
           /\ \A p \in 0 .. count, c \in Cols : p < count \/ c < fillCol => Filled(p, c)'
<1> HIDE DEF Depth
<1> USE DEF Ring
<1> DEFINE n == RowCounts[work[t].rg]
<1>1. n \in Nat /\ EndWith(t, n)
  <2>1. work[t].rg \in RGs
    BY DEF Types, TaskTypes
  <2>2. QED BY <2>1, Sizes DEF TaskDone
<1>2. /\ work[t] \in [slot : Slots, col : Cols, rg : RGs]
      /\ running' = running \ {t} /\ work' = [u \in running' |-> work[u]]
      /\ UNCHANGED readerVars /\ pending' = pending
      /\ \A s \in Slots, c \in Cols :
            buffer'[s][c] = IF s = work[t].slot /\ c = work[t].col /\ n # 0
                            THEN [rg |-> work[t].rg, n |-> n] ELSE buffer[s][c]
  BY <1>1, EndedTask DEF Types
<1> HIDE DEF n
<1>3. UNCHANGED <<head, count, next, fillCol, reader, taskArgs>>
  BY <1>2 DEF readerVars
<1>4. InFlight' \subseteq InFlight /\ InFlight \ {t} \subseteq InFlight' /\ t \in InFlight
  BY <1>2 DEF InFlight
<1>5. ASSUME NEW u \in InFlight' PROVE InFillOrder(u)'
  <2>1. InFillOrder(u)
    BY <1>4 DEF FaultFree
  <2>2. u \in running' => u \in running /\ work'[u] = work[u]
    BY <1>2
  <2>3. QED BY <1>3, <2>1, <2>2 DEF InFillOrder, SlotAfter
<1>6. PICK q \in 0 .. count :
        /\ t.rg = next - count + q
        /\ q < count \/ t.col < fillCol
        /\ work[t] = [slot |-> SlotAfter(head, q), col |-> t.col, rg |-> t.rg]
  BY <1>4 DEF FaultFree, InFillOrder
<1>7. t.col \in Cols /\ work[t].slot = SlotAfter(head, q) /\ work[t].col = t.col
      /\ work[t].rg = t.rg /\ n = RowCounts[t.rg]
  <2>1. t.col \in Cols
    BY DEF Types, TaskTypes, Tasks
  <2>2. QED BY <1>6, <2>1 DEF n
<1>8. q \in 0 .. Depth - 1 /\ q \in Nat
  BY <1>6, <1>7, Position DEF Types
<1>9. ASSUME NEW p \in 0 .. count, NEW c \in Cols, p < count \/ c < fillCol
      PROVE  Filled(p, c)'
  <2> DEFINE g == next - count + p
             s == SlotAfter(head, p)
  <2>1. /\ reader[s][c] = g
        /\ \/ RowCounts[g] = 0
           \/ \E u \in InFlight : u.rg = g /\ u.col = c
           \/ buffer[s][c] = [rg |-> g, n |-> RowCounts[g]]
    <3>1. Filled(p, c)
      BY <1>9 DEF FaultFree
    <3>2. QED BY <3>1 DEF Filled
  <2>2. p \in 0 .. Depth - 1 /\ p \in Nat /\ s \in Slots
    BY <1>9, Position DEF Types
  <2>3. s' = s /\ g' = g /\ reader' = reader
    BY <1>3 DEF SlotAfter
  <2>4. SUFFICES \/ RowCounts[g] = 0
                 \/ \E u \in InFlight' : u.rg = g /\ u.col = c
                 \/ buffer'[s][c] = [rg |-> g, n |-> RowCounts[g]]
    BY <2>1, <2>3 DEF Filled
  <2>5. CASE t.rg = g /\ t.col = c
    <3>1. q = p
      <4>1. next \in Nat /\ count \in Nat
        BY Sizes DEF Types, RingTypes
      <4>2. QED BY <1>6, <1>8, <2>2, <2>5, <4>1
    <3>2. CASE RowCounts[g] # 0
      BY <1>2, <1>7, <2>2, <2>5, <3>1, <3>2
    <3>3. QED BY <3>2
  <2>6. CASE ~(t.rg = g /\ t.col = c)
    <3>1. CASE \E u \in InFlight : u.rg = g /\ u.col = c
      BY <1>4, <2>6, <3>1
    <3>2. CASE buffer[s][c] = [rg |-> g, n |-> RowCounts[g]]
      <4>1. ASSUME s = SlotAfter(head, q), c = t.col PROVE FALSE
        <5>1. head \in Slots
          BY DEF Types, RingTypes
        <5>2. q = p
          BY <1>8, <2>2, <4>1, <5>1, SlotsApart
        <5>3. QED BY <1>6, <2>6, <4>1, <5>2
      <4>2. buffer'[s][c] = buffer[s][c]
        BY <1>2, <1>7, <2>2, <4>1
      <4>3. QED BY <3>2, <4>2
    <3>3. QED BY <2>1, <3>1, <3>2
  <2>7. QED BY <2>5, <2>6
<1>10. QED BY <1>4, <1>5, <1>9

LEMMA FaultFreeStep ==
    ASSUME Types, Ring, FaultFree, [Next]_vars
    PROVE  FaultFree'
<1> HIDE DEF Depth
<1> USE DEF Ring
<1>t. /\ count \in Nat /\ faults \in Nat /\ fillCol \in Nat /\ pc \in Steps
      /\ head \in Slots /\ count \in 0 .. Depth /\ next \in Nat
  BY Sizes DEF Types, RingTypes
<1> DEFINE Goal == /\ pc' \in {"user", "serve", "free", "fill2"} => InFlight' = {}
                   /\ pc' \in {"filled", "fill2"} => ~Fillable'
                   /\ \A t \in InFlight' : InFillOrder(t)'
                   /\ \A p \in 0 .. count', c \in Cols : p < count' \/ c < fillCol' => Filled(p, c)'
<1> SUFFICES ASSUME faults' = 0 PROVE Goal
  BY DEF FaultFree
<1>1. ASSUME faults = 0,
             UNCHANGED <<head, count, next, fillCol, reader, taskArgs, buffer, pending, running, work>>,
             pc' \in {"user", "serve", "free", "fill2"} => InFlight = {},
             pc' \in {"filled", "fill2"} => ~Fillable
      PROVE  Goal
  <2>1. /\ InFlight' = InFlight
        /\ \A t : InFillOrder(t) => InFillOrder(t)'
        /\ \A p, c : Filled(p, c) => Filled(p, c)'
    BY <1>1, OrderStutters
  <2>2. Fillable' <=> Fillable
    BY <1>1 DEF Fillable, RingFull
  <2>3. \A t \in InFlight' : InFillOrder(t)'
    BY <1>1, <2>1 DEF FaultFree
  <2>4. \A p \in 0 .. count', c \in Cols : p < count' \/ c < fillCol' => Filled(p, c)'
    BY <1>1, <2>1 DEF FaultFree
  <2>5. QED BY <1>1, <2>1, <2>2, <2>3, <2>4
<1>2. CASE CallNext
  <2>1. /\ pc = "user" /\ faults = 0 /\ UNCHANGED <<next, fillCol, reader, taskArgs, buffer, pending, running, work>>
    BY <1>2 DEF CallNext, poolVars
  <2>2. InFlight = {} /\ fillCol = 0
    BY <1>t, <2>1 DEF FaultFree, FillingSlot, Filling
  <2>3. CASE UNCHANGED <<head, count>> /\ pc' \in {"serve", "fill1"}
    BY <1>1, <2>1, <2>2, <2>3
  <2>4. CASE count > 0 /\ head' = SlotAfter(head, 1) /\ count' = count - 1 /\ pc' = "fill1"
    <3>1. InFlight' = {}
      BY <2>1, <2>2 DEF InFlight
    <3>2. ASSUME NEW p \in 0 .. count', NEW c \in Cols, p < count' \/ c < fillCol'
          PROVE  Filled(p, c)'
      <4>1. p < count'
        BY <2>1, <2>2, <3>2 DEF Cols
      <4>2. /\ p + 1 \in 0 .. count - 1 /\ next' - count' + p = next - count + (p + 1)
            /\ SlotAfter(head', p) = SlotAfter(head, p + 1)
        BY <2>1, <2>4, <4>1, Retired DEF Types
      <4>3. p + 1 \in 0 .. count /\ p + 1 < count
        BY <1>t, <4>2
      <4>4. Filled(p + 1, c)
        BY <2>1, <4>3 DEF FaultFree
      <4>5. SlotAfter(head, p)' = SlotAfter(head, p + 1)
        BY <4>2 DEF SlotAfter
      <4>6. QED BY <2>1, <2>2, <4>2, <4>4, <4>5 DEF Filled
    <3>3. QED BY <2>4, <3>1, <3>2
  <2>5. QED BY <1>2, <2>3, <2>4, CallNextKeepsOrRetires DEF Types
<1>3. CASE FillPrepare
  <2>1. /\ Filling /\ Fillable /\ fillCol = 0 /\ faults = 0 /\ fillCol' = 1
        /\ reader' = [reader EXCEPT ![SlotAfter(head, count)] = [c \in Cols |-> next]]
        /\ UNCHANGED <<head, count, next, pc, taskArgs, buffer, pending, running, work>>
    BY <1>3 DEF FillPrepare, poolVars
  <2>2. pc' = "fill1"
    BY <2>1 DEF Filling, FaultFree
  <2>3. /\ SlotAfter(head, count) \in Slots
        /\ \A i \in 0 .. count - 1 : SlotAfter(head, i) # SlotAfter(head, count)
    BY <2>1, FillTarget DEF Types
  <2>4. InFlight' = InFlight
    BY <2>1 DEF InFlight
  <2>5. ASSUME NEW t \in InFlight PROVE InFillOrder(t)'
    <3>1. t.col \in Cols
      BY InFlightTasks
    <3>2. ~(t.col < 0)
      BY <3>1 DEF Cols
    <3>3. InFillOrder(t)
      BY <2>1 DEF FaultFree
    <3>4. QED BY <2>1, <3>2, <3>3 DEF InFillOrder, SlotAfter
  <2>6. ASSUME NEW p \in 0 .. count', NEW c \in Cols, p < count' \/ c < fillCol'
        PROVE  Filled(p, c)'
    <3>1. p \in 0 .. count - 1 /\ p \in 0 .. count /\ p < count
      BY <1>t, <2>1, <2>6 DEF Cols
    <3>2. Filled(p, c)
      BY <2>1, <3>1 DEF FaultFree
    <3>3. SlotAfter(head, p) \in Slots \ {SlotAfter(head, count)}
      BY <2>3, <3>1, Position DEF Types
    <3>4. reader'[SlotAfter(head, p)] = reader[SlotAfter(head, p)]
      BY <2>1, <3>3 DEF Types, TaskTypes
    <3>5. QED BY <2>1, <2>4, <3>2, <3>4 DEF Filled, SlotAfter
  <2>7. QED BY <2>2, <2>4, <2>5, <2>6
<1>4. CASE FillFails
  BY <1>t, <1>4 DEF FillFails
<1>5. CASE FillSubmit
  <2>1. faults = 0
    BY <1>5 DEF FillSubmit
  <2>2. QED BY <1>5, <2>1, SubmitKeepsOrder
<1>6. CASE FillDone
  <2>1. /\ faults = 0 /\ ~Fillable /\ pc' \in {"filled", "serve"}
        /\ pc' = "serve" => pc = "fill2"
        /\ UNCHANGED <<head, count, next, fillCol, reader, taskArgs, buffer, pending, running, work>>
    BY <1>6 DEF FillDone, LeaveFill, Filling, poolVars
  <2>2. QED BY <1>1, <2>1 DEF FaultFree
<1>7. CASE ReturnEnd
  <2>1. /\ faults = 0 /\ pc = "filled" /\ pc' = "user" /\ count = 0
        /\ UNCHANGED <<head, count, next, fillCol, reader, taskArgs, buffer, pending, running, work>>
    BY <1>7 DEF ReturnEnd, poolVars
  <2>2. InFlight = {}
    <3>1. fillCol = 0
      BY <1>t, <2>1 DEF FillingSlot, Filling
    <3>2. SUFFICES ASSUME NEW t \in InFlight PROVE FALSE
      OBVIOUS
    <3>3. t.col \in Cols
      BY InFlightTasks
    <3>4. PICK p \in 0 .. count : p < count \/ t.col < fillCol
      BY <2>1 DEF FaultFree, InFillOrder
    <3>5. QED BY <2>1, <3>1, <3>3, <3>4 DEF Cols
  <2>3. QED BY <1>1, <2>1, <2>2
<1>8. CASE WaitPool
  <2>1. /\ faults = 0 /\ pc = "filled" /\ pc' = "fill2" /\ AllTasksDone
        /\ UNCHANGED <<head, count, next, fillCol, reader, taskArgs, buffer, pending, running, work>>
    BY <1>8 DEF WaitPool, poolVars
  <2>2. InFlight = {}
    BY <2>1 DEF AllTasksDone, InFlight
  <2>3. QED BY <1>1, <2>1, <2>2 DEF FaultFree
<1>9. CASE Serve \/ ServeFails \/ CallFree
  <2>1. /\ faults = 0 /\ pc \in {"serve", "user"} /\ pc' \in {"user", "free"}
        /\ UNCHANGED <<head, count, next, fillCol, reader, taskArgs, buffer, pending, running, work>>
    BY <1>9 DEF Serve, ServeFails, CallFree, poolVars
  <2>2. QED BY <1>1, <2>1 DEF FaultFree
<1>10. CASE FreeDrained
  <2>1. /\ faults = 0 /\ pc' = "freed"
        /\ UNCHANGED <<head, count, next, fillCol, reader, taskArgs, buffer, pending, running, work>>
    BY <1>10 DEF FreeDrained, Pool!Close
  <2>2. QED BY <1>1, <2>1
<1>11. CASE TaskStart
  <2>1. /\ faults = 0 /\ UNCHANGED <<head, count, next, fillCol, pc>>
    BY <1>11, StartedTask DEF readerVars
  <2>2. /\ InFlight' = InFlight
        /\ \A t \in InFlight : InFillOrder(t)'
        /\ \A p, c : Filled(p, c) => Filled(p, c)'
    BY <1>11, <2>1, StartKeepsOrder
  <2>3. Fillable' <=> Fillable
    BY <2>1 DEF Fillable, RingFull
  <2>4. \A p \in 0 .. count', c \in Cols : p < count' \/ c < fillCol' => Filled(p, c)'
    BY <2>1, <2>2 DEF FaultFree
  <2>5. QED BY <2>1, <2>2, <2>3, <2>4 DEF FaultFree
<1>12. ASSUME NEW t \in running, TaskDone(t) PROVE Goal
  <2>1. /\ faults = 0 /\ UNCHANGED <<head, count, next, fillCol, pc>>
    BY <1>12 DEF TaskDone, EndWith, readerVars
  <2>2. /\ InFlight' \subseteq InFlight
        /\ \A u \in InFlight' : InFillOrder(u)'
        /\ \A p \in 0 .. count, c \in Cols : p < count \/ c < fillCol => Filled(p, c)'
    BY <1>12, <2>1, EndKeepsOrder
  <2>3. Fillable' <=> Fillable
    BY <2>1 DEF Fillable, RingFull
  <2>4. QED BY <2>1, <2>2, <2>3 DEF FaultFree
<1>13. ASSUME NEW t \in running, TaskFails(t) PROVE Goal
  BY <1>t, <1>13 DEF TaskFails
<1>14. CASE UNCHANGED vars
  BY <1>1, <1>14 DEF vars, FaultFree
<1> HIDE DEF Goal
<1>15. QED
  BY <1>2, <1>3, <1>4, <1>5, <1>6, <1>7, <1>8, <1>9, <1>10, <1>11, <1>12, <1>13, <1>14
     DEF Next, NextStep, FillStep, PoolStep, Freed

-------------------------------------------------------------------------------
(* Safety.                                                                 *)

LEMMA InvariantInit == Init => Types /\ Ring /\ FaultFree
<1> SUFFICES ASSUME Init PROVE Types /\ Ring /\ FaultFree
  OBVIOUS
<1> HIDE DEF Depth
<1>1. Types
  BY TypesInit
<1>2. /\ pending = <<>> /\ running = {} /\ count = 0 /\ next = 1 /\ pc = "user"
      /\ fillCol = 0 /\ batch = NoBatch /\ cursor = <<1, 0>> /\ faults = 0
  BY DEF Init, Pool!PoolInit
<1>3. InFlight = {}
  BY <1>2 DEF InFlight
<1>4. Ring
  BY <1>2 DEF Ring, HeldSlots, FillingSlot, Serving, CursorAgrees
<1>5. FaultFree
  <2>1. \A c \in Cols : ~(c < 0)
    BY DEF Cols
  <2>2. \A p \in 0 .. 0, c \in Cols : ~(p < 0 \/ c < 0)
    BY <2>1
  <2>3. QED BY <1>2, <1>3, <2>2 DEF FaultFree
<1>6. QED BY <1>1, <1>4, <1>5

\* The invariant behind the theorems: the ring holds the next row groups in
\* order, the cursor and the caller's batch agree with its head, and until a
\* fault every task in flight has its own entry, slot, column and reader.
THEOREM Invariant == Spec => [](Types /\ Ring /\ FaultFree)
<1>1. Types /\ Ring /\ FaultFree /\ [Next]_vars
        => (Types /\ Ring /\ FaultFree)'
  <2> SUFFICES ASSUME Types, Ring, FaultFree, [Next]_vars
               PROVE  (Types /\ Ring /\ FaultFree)'
    OBVIOUS
  <2>1. Types'
    BY RingTypesStep, TaskTypesStep DEF Types, Ring
  <2>2. Ring'
    BY HeldSlotsStep, FillingSlotStep, ServingStep DEF Ring
  <2>3. FaultFree'
    BY FaultFreeStep
  <2>4. QED BY <2>1, <2>2, <2>3
<1>2. QED BY InvariantInit, <1>1, PTL DEF Spec

\* The counters of the ring stay in range and the occupied slots hold
\* consecutive row groups, whatever the numbers of row groups and threads.
THEOREM RingKept == Spec => []TypeOK
<1>1. Types /\ Ring => TypeOK
  <2> SUFFICES ASSUME Types, Ring PROVE TypeOK
    OBVIOUS
  <2> HIDE DEF Depth
  <2>1. \A i \in 0 .. count - 1 : slot[SlotAfter(head, i)].consumed \in Nat
                                  /\ slot[SlotAfter(head, i)].total \in Nat
    <3> TAKE i \in 0 .. count - 1
    <3>1. i \in 0 .. Depth
      BY Sizes DEF Types, RingTypes
    <3>2. slot[SlotAfter(head, i)] \in SlotRecords
      BY <3>1, SlotAfterWraps DEF Types, RingTypes
    <3>3. QED BY <3>2 DEF SlotRecords
  <2>2. ASSUME NEW i \in 0 .. count - 1
        PROVE  LET s == slot[SlotAfter(head, i)]
               IN /\ s.rg = next - count + i /\ s.total = RowCounts[s.rg]
                  /\ s.consumed \in 0 .. s.total
    BY <2>1 DEF Ring, HeldSlots
  <2>3. QED BY <2>2 DEF TypeOK, Types, RingTypes, TaskTypes
<1>2. QED BY Invariant, <1>1, PTL

\* The entries of a head slot that has no rows left of it are whole.
LEMMA HeadIsFilled ==
    ASSUME Types, Ring, FaultFree, faults = 0, count > 0, InFlight = {}, NEW c \in Cols,
           slot[head].total # 0
    PROVE  buffer[head][c] = [rg |-> next - count, n |-> slot[head].total]
<1> HIDE DEF Depth
<1>1. /\ next - count \in RGs /\ slot[head].total = RowCounts[next - count]
      /\ 0 \in 0 .. count - 1 /\ SlotAfter(head, 0) = head
  BY HeadSlot DEF Types, Ring
<1>2. 0 \in 0 .. count /\ 0 < count /\ next - count + 0 = next - count
  BY <1>1, Sizes DEF Types, RingTypes
<1>3. Filled(0, c)
  BY <1>2 DEF FaultFree
<1>4. QED BY <1>1, <1>2, <1>3 DEF Filled

\* A held batch shows whole columns of its row group, and no task in flight
\* writes to them, although next() refilled the ring behind it.
THEOREM HeldBatchIntact == Spec => []BatchIntact
<1>1. Types /\ Ring /\ FaultFree => BatchIntact
  <2> SUFFICES ASSUME Types, Ring, FaultFree, faults = 0, batch # NoBatch, NEW c \in Cols
               PROVE  /\ batch.n > 0 => buffer[batch.slot][c] =
                             [rg |-> slot[batch.slot].rg, n |-> slot[batch.slot].total]
                      /\ \A t \in InFlight : Target(t) # [slot |-> batch.slot, col |-> c]
    BY DEF BatchIntact
  <2>1. /\ pc = "user" /\ count > 0 /\ batch.slot = head
        /\ batch.first + batch.n = slot[head].consumed
    BY DEF Ring, Serving
  <2>2. InFlight = {}
    BY <2>1 DEF FaultFree
  <2>3. /\ slot[head].consumed <= slot[head].total /\ slot[head].rg = next - count
        /\ slot[head].consumed \in Nat /\ slot[head].total \in Nat
    BY <2>1, HeadSlot DEF Types, Ring
  <2>4. batch.first \in Nat /\ batch.n \in Nat
    BY DEF Types, RingTypes
  <2>5. batch.n > 0 => slot[head].total # 0
    BY <2>1, <2>3, <2>4
  <2>6. QED BY <2>1, <2>2, <2>3, <2>5, HeadIsFilled
<1>2. QED BY Invariant, <1>1, PTL

\* Until a fault, reusing the entries of task_args never catches a task in
\* flight, and no two tasks share a column of a slot.
THEOREM EntriesStable == Spec => []ArgsStable
<1>1. Types /\ Ring /\ FaultFree => ArgsStable
  <2> SUFFICES ASSUME Types, Ring, FaultFree, faults = 0, NEW t \in InFlight
               PROVE  /\ taskArgs[t.arg].col = t.col
                      /\ reader[taskArgs[t.arg].slot][t.col] = t.rg
                      /\ \A u \in InFlight : u # t => Target(u) # Target(t)
    BY DEF ArgsStable
  <2> HIDE DEF Depth
  <2>1. ASSUME NEW u \in InFlight
        PROVE  \E p \in 0 .. Depth - 1 :
                  /\ u.rg = next - count + p /\ u.arg = ArgIndex(p, u.col)
                  /\ taskArgs[u.arg] = [slot |-> SlotAfter(head, p), col |-> u.col]
                  /\ Target(u) = [slot |-> SlotAfter(head, p), col |-> u.col]
                  /\ reader[SlotAfter(head, p)][u.col] = u.rg
    <3>1. PICK p \in 0 .. count :
            /\ u.rg = next - count + p
            /\ p < count \/ u.col < fillCol
            /\ u.arg = ArgIndex(p, u.col)
            /\ taskArgs[u.arg] = [slot |-> SlotAfter(head, p), col |-> u.col]
            /\ u \in running => work[u] = [slot |-> SlotAfter(head, p), col |-> u.col, rg |-> u.rg]
      BY DEF FaultFree, InFillOrder
    <3>2. u.col \in Cols
      BY InFlightTasks
    <3>3. p \in 0 .. Depth - 1
      BY <3>1, <3>2, Position DEF Types, Ring
    <3>4. reader[SlotAfter(head, p)][u.col] = u.rg
      BY <3>1, <3>2 DEF FaultFree, Filled
    <3>5. Target(u) = [slot |-> SlotAfter(head, p), col |-> u.col]
      BY <3>1 DEF Target
    <3>6. QED BY <3>1, <3>3, <3>4, <3>5
  <2>2. PICK p \in 0 .. Depth - 1 :
          /\ t.rg = next - count + p /\ t.arg = ArgIndex(p, t.col)
          /\ taskArgs[t.arg] = [slot |-> SlotAfter(head, p), col |-> t.col]
          /\ Target(t) = [slot |-> SlotAfter(head, p), col |-> t.col]
          /\ reader[SlotAfter(head, p)][t.col] = t.rg
    BY <2>1
  <2>3. ASSUME NEW u \in InFlight, Target(u) = Target(t) PROVE u = t
    <3>1. PICK q \in 0 .. Depth - 1 :
            /\ u.rg = next - count + q /\ u.arg = ArgIndex(q, u.col)
            /\ Target(u) = [slot |-> SlotAfter(head, q), col |-> u.col]
      BY <2>1
    <3>2. SlotAfter(head, q) = SlotAfter(head, p) /\ u.col = t.col
      BY <2>2, <2>3, <3>1
    <3>3. q = p
      BY <3>2, SlotsApart DEF Types, RingTypes
    <3>4. u.rg = t.rg /\ u.arg = t.arg
      BY <2>2, <3>1, <3>2, <3>3
    <3>5. t \in Tasks /\ u \in Tasks
      BY InFlightTasks
    <3>6. QED BY <3>2, <3>4, <3>5 DEF Tasks
  <2>4. QED BY <2>2, <2>3
<1>2. QED BY Invariant, <1>1, PTL

-------------------------------------------------------------------------------
(* Refinement: the pipeline implements the safety part of RowStream.       *)

\* What the stream shows does not change.
LEMMA StreamStutters ==
    ASSUME UNCHANGED cursor, Held' = Held, faults' > 0 <=> faults > 0,
           pc' \in {"user", "freed"} <=> pc \in {"user", "freed"}
    PROVE  UNCHANGED Stream!streamVars
BY DEF Stream!streamVars

LEMMA HeldStutters ==
    /\ UNCHANGED <<batch, buffer>> => Held' = Held
    /\ batch = NoBatch => Held = <<>>
    /\ batch = NoBatch /\ batch' = NoBatch => Held' = Held
    /\ batch # NoBatch => Held # <<>>
<1>1. UNCHANGED <<batch, buffer>> => Held' = Held
  BY DEF Held, Content
<1>2. /\ batch = NoBatch => Held = <<>>
      /\ batch = NoBatch /\ batch' = NoBatch => Held' = Held
  BY DEF Held
<1>3. ASSUME batch # NoBatch PROVE Held # <<>>
  <2>1. DOMAIN Held = Cols /\ 1 \in Cols /\ DOMAIN <<>> = {}
    BY <1>3 DEF Held, Cols
  <2>2. QED BY <2>1
<1>4. QED BY <1>1, <1>2, <1>3

LEMMA AsksForABatch == ASSUME CallNext \/ CallFree PROVE Stream!Ask
<1>1. /\ pc = "user" /\ pc' \notin {"user", "freed"} /\ batch' = NoBatch
      /\ UNCHANGED <<cursor, faults>>
  BY DEF CallNext, CallFree
<1>2. Held' = <<>>
  BY <1>1 DEF Held
<1>3. QED BY <1>1, <1>2 DEF Stream!Ask, Stream!NoBatch

LEMMA EndsAtTheEnd ==
    ASSUME Types, Ring, FaultFree, ReturnEnd
    PROVE  Stream!EndOfData
<1> HIDE DEF Depth
<1>1. /\ pc = "filled" /\ pc' = "user" /\ count = 0
      /\ UNCHANGED <<cursor, batch, buffer, faults>>
  BY DEF ReturnEnd, poolVars
<1>2. Held' = Held
  BY <1>1, HeldStutters
<1>3. CASE faults = 0
  <2>1. next > Len(RowCounts)
    <3>1. ~Fillable /\ ~RingFull
      BY <1>1, <1>3, Sizes DEF FaultFree, RingFull
    <3>2. next \in Nat /\ Len(RowCounts) \in Nat
      BY Sizes DEF Types, RingTypes
    <3>3. QED BY <3>1, <3>2 DEF Fillable
  <2>2. cursor[1] = next
    BY <1>1 DEF Ring, CursorAgrees
  <2>3. Stream!AtEnd
    BY <2>1, <2>2 DEF Stream!AtEnd
  <2>4. QED BY <1>1, <1>2, <2>3 DEF Stream!EndOfData
<1>4. CASE faults > 0
  BY <1>1, <1>2, <1>4 DEF Stream!EndOfData
<1>5. QED BY <1>3, <1>4 DEF Types, RingTypes

\* A served batch is the next window of the head slot's row group.
LEMMA ServesTheNextRows ==
    ASSUME Types, Ring, FaultFree, Serve
    PROVE  Stream!Deliver
<1> HIDE DEF Depth
<1> DEFINE g    == next - count
           r    == slot[head].consumed
           left == slot[head].total - r
           n    == Smaller(left, BatchSize)
<1>1. pc = "serve" /\ count > 0
  BY DEF Serve, Ring, Serving
<1>2. /\ g \in RGs /\ slot[head].rg = g /\ slot[head].total = RowCounts[g]
      /\ r \in Nat /\ slot[head].total \in Nat /\ r <= slot[head].total
  BY <1>1, HeadSlot DEF Types, Ring
<1>3. /\ batch' = [slot |-> head, first |-> r, n |-> n]
      /\ cursor' = CursorAfter(head, r + n) /\ pc' = "user"
      /\ UNCHANGED <<buffer, faults>>
  BY DEF Serve, poolVars
<1>4. cursor = <<g, r>>
  BY <1>1 DEF Ring, CursorAgrees
<1>5. n \in 0 .. BatchSize /\ n <= left /\ (n = 0 => left = 0)
  BY <1>2 DEF Smaller
<1>6. ~Stream!AtEnd
  <2>1. ~(g > Len(RowCounts))
    BY <1>2, Sizes DEF RGs
  <2>2. QED BY <1>4, <2>1 DEF Stream!AtEnd
<1>7. cursor' = Stream!CursorAfter(g, r + n)
  BY <1>2, <1>3 DEF CursorAfter, Stream!CursorAfter
<1>8. head \in Slots /\ batch' # NoBatch
  <2>1. head \in Slots /\ head # -1
    BY Sizes DEF Types, RingTypes, Slots
  <2>2. batch'.slot # NoBatch.slot
    BY <1>3, <2>1 DEF NoBatch
  <2>3. QED BY <2>1, <2>2
<1> HIDE DEF n
<1>9. Held' = [c \in Cols |-> [i \in 1 .. n |-> IF r + i <= buffer[head][c].n
                                               THEN <<buffer[head][c].rg, r + i>>
                                               ELSE Garbage]]
  BY <1>3, <1>8 DEF Held, Content
<1>10. ASSUME faults = 0 PROVE Held' = [c \in Cols |-> Stream!Window(g, r, n)]
  <2>1. InFlight = {}
    BY <1>1, <1>10 DEF FaultFree
  <2>2. ASSUME NEW c \in Cols, NEW i \in 1 .. n
        PROVE  r + i <= buffer[head][c].n /\ buffer[head][c].rg = g
    <3>1. slot[head].total # 0 /\ r + i <= slot[head].total
      BY <1>2, <1>5, <2>2
    <3>2. buffer[head][c] = [rg |-> g, n |-> slot[head].total]
      BY <1>1, <1>10, <2>1, <3>1, HeadIsFilled
    <3>3. QED BY <3>1, <3>2
  <2>3. ASSUME NEW c \in Cols
        PROVE  [i \in 1 .. n |-> IF r + i <= buffer[head][c].n
                                 THEN <<buffer[head][c].rg, r + i>> ELSE Garbage]
               = [i \in 1 .. n |-> <<g, r + i>>]
    BY <2>2
  <2>4. QED BY <1>9, <2>3 DEF Stream!Window
<1>11. Held' # <<>>
  <2>1. DOMAIN Held' = Cols /\ 1 \in Cols /\ DOMAIN <<>> = {}
    BY <1>9 DEF Cols
  <2>2. QED BY <2>1
<1>12. ~(faults > 0) => faults = 0
  BY DEF Types, RingTypes
<1> DEFINE asked == pc \notin {"user", "freed"}
<1>13. asked /\ ~asked'
  BY <1>1, <1>3
<1>14. cursor[1] = g /\ cursor[2] = r /\ RowCounts[g] - r = left
  BY <1>2, <1>4
<1> HIDE DEF g, r, left
<1>15. QED
  BY <1>3, <1>5, <1>6, <1>7, <1>10, <1>11, <1>12, <1>13, <1>14
     DEF Stream!Deliver, Stream!NoBatch

\* A failed allocation serves nothing and loses no row.
LEMMA FailsWithoutLoss ==
    ASSUME Types, Ring, ServeFails
    PROVE  Stream!Error
<1> HIDE DEF Depth
<1> DEFINE g == next - count
           r == slot[head].consumed
<1>1. /\ pc = "serve" /\ count > 0 /\ pc' = "user"
      /\ cursor' = CursorAfter(head, r) /\ UNCHANGED <<batch, buffer, faults>>
  BY DEF ServeFails, Ring, Serving, poolVars
<1>2. /\ g \in RGs /\ slot[head].rg = g /\ slot[head].total = RowCounts[g]
      /\ r \in Nat /\ slot[head].total \in Nat /\ r <= slot[head].total
  BY <1>1, HeadSlot DEF Types, Ring
<1>3. r < slot[head].total \/ r = 0
  BY <1>1 DEF Ring, Serving
<1>4. cursor = <<g, r>>
  BY <1>1 DEF Ring, CursorAgrees
<1>5. Held' = Held
  BY <1>1, HeldStutters
<1>6. \/ cursor' = cursor
      \/ ~Stream!AtEnd /\ RowCounts[cursor[1]] = 0 /\ cursor' = Stream!CursorAfter(cursor[1], 0)
  <2>1. CASE r < slot[head].total
    BY <1>1, <1>2, <1>4, <2>1 DEF CursorAfter
  <2>2. CASE ~(r < slot[head].total)
    <3>1. r = 0 /\ RowCounts[g] = 0
      BY <1>2, <1>3, <2>2
    <3>2. ~(g > Len(RowCounts))
      BY <1>2, Sizes DEF RGs
    <3>3. cursor' = <<g + 1, 0>>
      BY <1>1, <1>2, <3>1 DEF CursorAfter
    <3>4. cursor[1] = g
      BY <1>4
    <3>5. QED BY <3>1, <3>2, <3>3, <3>4 DEF Stream!AtEnd, Stream!CursorAfter
  <2>3. QED BY <2>1, <2>2
<1>7. QED BY <1>1, <1>5, <1>6 DEF Stream!Error

\* Whatever a thread decodes, or fails to decode, the caller sees it only
\* after a fault.
LEMMA EndOfATaskUnseen ==
    ASSUME Types, Ring, FaultFree, NEW t \in running, TaskDone(t) \/ TaskFails(t)
    PROVE  [Stream!StreamNext]_(Stream!streamVars)
<1>1. /\ UNCHANGED readerVars /\ (faults' = faults \/ faults' = faults + 1)
      /\ TaskDone(t) => faults' = faults
  BY DEF TaskDone, TaskFails, EndWith
<1>2. UNCHANGED <<pc, batch, cursor>> /\ faults \in Nat /\ faults' \in Nat
  BY <1>1 DEF readerVars, Types, RingTypes
<1>3. CASE batch = NoBatch
  <2>1. Held' = Held
    BY <1>2, <1>3, HeldStutters
  <2>2. CASE faults' > 0 <=> faults > 0
    BY <1>2, <2>1, <2>2, StreamStutters
  <2>3. CASE ~(faults' > 0 <=> faults > 0)
    <3>1. faults' > 0
      BY <1>1, <1>2, <2>3
    <3>2. QED BY <1>2, <2>1, <3>1 DEF Stream!StreamNext, Stream!Fault
  <2>4. QED BY <2>2, <2>3
<1>4. CASE batch # NoBatch
  <2>1. faults > 0
    <3>1. SUFFICES ASSUME faults = 0 PROVE FALSE
      BY <1>2
    <3>2. pc = "user"
      BY <1>4 DEF Ring, Serving
    <3>3. InFlight = {}
      BY <3>1, <3>2 DEF FaultFree
    <3>4. QED BY <3>3 DEF InFlight
  <2>2. faults' > 0
    BY <1>1, <1>2, <2>1
  <2>3. Held # <<>>
    BY <1>4, HeldStutters
  <2>4. Held' # <<>>
    <3>1. DOMAIN Held' = Cols /\ 1 \in Cols /\ DOMAIN <<>> = {}
      BY <1>2, <1>4 DEF Held, Cols
    <3>2. QED BY <3>1
  <2>5. QED BY <1>2, <2>1, <2>2, <2>3, <2>4 DEF Stream!StreamNext, Stream!Garble, Stream!NoBatch
<1>5. QED BY <1>3, <1>4

LEMMA StepImplements ==
    ASSUME Types, Ring, FaultFree, [Next]_vars
    PROVE  [Stream!StreamNext]_(Stream!streamVars)
<1>1. CASE CallNext \/ CallFree
  BY <1>1, AsksForABatch DEF Stream!StreamNext
<1>2. CASE FillPrepare \/ FillSubmit \/ FillDone \/ WaitPool
  <2>1. /\ pc \notin {"user", "freed"} /\ pc' \notin {"user", "freed"}
        /\ UNCHANGED <<batch, buffer, cursor, faults>>
    BY <1>2 DEF FillPrepare, FillSubmit, FillDone, WaitPool, Filling, LeaveFill, poolVars
  <2>2. QED BY <2>1, HeldStutters, StreamStutters
<1>3. CASE FillFails
  <2>1. /\ pc \notin {"user", "freed"} /\ pc' \notin {"user", "freed"}
        /\ UNCHANGED <<batch, buffer, cursor>> /\ faults' = faults + 1 /\ faults \in Nat
    BY <1>3 DEF FillFails, Filling, LeaveFill, poolVars, Types, RingTypes
  <2>2. faults' > 0 /\ Held' = Held
    BY <2>1, HeldStutters
  <2>3. QED BY <2>1, <2>2 DEF Stream!StreamNext, Stream!Fault
<1>4. CASE ReturnEnd
  BY <1>4, EndsAtTheEnd DEF Stream!StreamNext
<1>5. CASE Serve
  BY <1>5, ServesTheNextRows DEF Stream!StreamNext
<1>6. CASE ServeFails
  BY <1>6, FailsWithoutLoss DEF Stream!StreamNext
<1>7. CASE FreeDrained
  <2>1. pc = "free" /\ pc' = "freed" /\ UNCHANGED <<batch, buffer, cursor, faults>>
    BY <1>7 DEF FreeDrained
  <2>2. Held' = Held
    BY <2>1, HeldStutters
  <2>3. QED BY <2>1, <2>2 DEF Stream!StreamNext, Stream!Error
<1>8. CASE TaskStart
  <2>1. UNCHANGED <<pc, batch, buffer, cursor, faults>>
    BY <1>8 DEF TaskStart, readerVars
  <2>2. QED BY <2>1, HeldStutters, StreamStutters
<1>9. ASSUME NEW t \in running, TaskDone(t) \/ TaskFails(t)
      PROVE  [Stream!StreamNext]_(Stream!streamVars)
  BY <1>9, EndOfATaskUnseen
<1>10. CASE UNCHANGED vars
  <2>1. UNCHANGED <<pc, batch, buffer, cursor, faults>>
    BY <1>10 DEF vars
  <2>2. QED BY <2>1, HeldStutters, StreamStutters
<1>11. QED
  BY <1>1, <1>2, <1>3, <1>4, <1>5, <1>6, <1>7, <1>8, <1>9, <1>10
     DEF Next, NextStep, FillStep, PoolStep, Freed

\* The pipeline is a row stream: the rows come in file order, none twice and
\* none left out, columns aligned, batches untouched until the next call and
\* the end only after the last row, for any row groups, columns, batch size
\* and threads, with faults allowed at any point.  (That every call returns
\* needs fairness and is left to the runs.)
THEOREM ImplementsSafely == Spec => Stream!StreamSafeSpec
<1>1. Init => Stream!StreamInit
  <2> SUFFICES ASSUME Init PROVE Stream!StreamInit
    OBVIOUS
  <2>1. cursor = <<1, 0>> /\ batch = NoBatch /\ pc = "user" /\ faults = 0
    BY DEF Init
  <2>2. Held = <<>>
    BY <2>1 DEF Held
  <2>3. QED BY <2>1, <2>2 DEF Stream!StreamInit, Stream!NoBatch
<1>2. Types /\ Ring /\ FaultFree /\ [Next]_vars => [Stream!StreamNext]_(Stream!streamVars)
  BY StepImplements
<1>3. QED BY Invariant, <1>1, <1>2, PTL DEF Spec, Stream!StreamSafeSpec
===============================================================================
