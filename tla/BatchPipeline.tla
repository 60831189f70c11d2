----------------------------- MODULE BatchPipeline -----------------------------
(***************************************************************************)
(* The pipeline of src/reader/batch_reader.c: a ring of slots, one per row *)
(* group in flight, that worker threads fill column by column while the    *)
(* caller of carquet_batch_reader_next consumes them.  The workers are the *)
(* pool of TaskPool (which WorkerPool implements).  Tasks do not carry     *)
(* their work: they point into the task_args array, which the reader       *)
(* reuses, so what a task does is what its entry says when it starts.      *)
(***************************************************************************)
EXTENDS Integers, Sequences, FiniteSets

CONSTANTS RowCounts,  \* num_rows of the row groups in rg_order
          NumCols,    \* num_projected
          Threads,    \* pool->num_threads
          BatchSize,  \* config.batch_size
          MaxFaults   \* bound: how many fills and decodings may fail

ASSUME BatchPipelineAssumption ==
    /\ RowCounts \in Seq(Nat) /\ RowCounts # <<>>
    /\ NumCols \in Nat \ {0} /\ Threads \in Nat \ {0, 1}
    /\ BatchSize \in Nat \ {0} /\ MaxFaults \in Nat

RGs == 1 .. Len(RowCounts)
Cols == 1 .. NumCols

\* pipeline_depth, and the entries of task_args each slot gets: np*(1+1).
Depth == IF Len(RowCounts) > 2 * Threads THEN 2 * Threads ELSE Len(RowCounts)
TasksPerSlot == 2 * NumCols
Slots == 0 .. Depth - 1
ArgIndices == 0 .. Depth * TasksPerSlot - 1

VARIABLES
    head, count, next,   \* pipeline_head, pipeline_count, rg_order_next + 1
    slot,                \* per slot: rg_index (0 = none), total, consumed
    reader,              \* col_readers: the row group each one is set to
    buffer,              \* col_values: a prefix of a row group's column
    taskArgs,            \* task_args: the slot and column of each entry
    pc, fillCol,         \* where next() is; the column pipeline_fill submits
    batch,               \* what the caller holds: a window of the head slot
    cached,              \* the batch struct has been allocated
    pending, running, finished, closed,  \* the pool
    work,                \* history: what each started task works on
    cursor, faults       \* history: the next row to serve, the faults so far

readerVars == <<head, count, next, slot, reader, taskArgs, pc, fillCol,
                batch, cached, cursor>>
poolVars == <<pending, running, finished, closed, work, buffer>>
vars == <<head, count, next, slot, reader, buffer, taskArgs, pc, fillCol, batch,
          cached, pending, running, finished, closed, work, cursor, faults>>

\* A task is submitted once per row group and column; arg is its pointer.
Tasks == [rg : RGs, col : Cols, arg : ArgIndices]
Pool == INSTANCE TaskPool

NoBatch == [slot |-> -1, first |-> 0, n |-> 0]
NoArg == [slot |-> -1, col |-> 0]
Garbage == <<0, 0>>

Smaller(a, b) == IF a <= b THEN a ELSE b

-------------------------------------------------------------------------------
(* Helpers.                                                                *)

SlotAfter(s, n) == (s + n) % Depth

ArgIndexShared(position, col) == col - 1
ArgIndex(position, col) == position * TasksPerSlot + col - 1

ExhaustedLate(s) == slot[s].consumed > slot[s].total
Exhausted(s) == slot[s].consumed >= slot[s].total

QueueEmpty == pending = <<>>
AllTasksDone == pending = <<>> /\ running = {}

RingFullOffByOne == count > Depth
RingFull == count >= Depth

\* Rows first + 1 .. first + n of a column buffer.
Content(s, c, first, n) ==
    [i \in 1..n |-> IF first + i <= buffer[s][c].n
                    THEN <<buffer[s][c].rg, first + i>> ELSE Garbage]

CursorAfter(s, consumed) ==
    IF consumed >= slot[s].total THEN <<slot[s].rg + 1, 0>>
    ELSE <<slot[s].rg, consumed>>

-------------------------------------------------------------------------------
(* pipeline_fill, called twice by a next() that needs a new slot.          *)

Filling == pc \in {"fill1", "fill2"}
LeaveFill == pc' = IF pc = "fill1" THEN "filled" ELSE "serve"
Fillable == ~RingFull /\ next <= Len(RowCounts)

\* Reset (or create) the slot's column readers and make room in its buffers.
FillPrepare ==
    LET s == SlotAfter(head, count)
    IN /\ Filling /\ fillCol = 0 /\ Fillable
       /\ reader' = [reader EXCEPT ![s] = [c \in Cols |-> next]]
       /\ slot' = [slot EXCEPT ![s] = [rg |-> next, total |-> RowCounts[next],
                                       consumed |-> 0]]
       /\ fillCol' = 1
       /\ UNCHANGED <<head, count, next, taskArgs, pc, batch, cached, cursor,
                      faults, poolVars>>

\* get_column or realloc fails after k columns: pipeline_fill just returns.
FillFails ==
    LET s == SlotAfter(head, count)
    IN /\ Filling /\ fillCol = 0 /\ Fillable
       /\ faults < MaxFaults /\ faults' = faults + 1
       /\ \E k \in 0 .. NumCols :
              reader' = [reader EXCEPT ![s] =
                            [c \in Cols |-> IF c <= k THEN next ELSE @[c]]]
       /\ LeaveFill
       /\ UNCHANGED <<head, count, next, slot, taskArgs, fillCol, batch, cached,
                      cursor, poolVars>>

\* Write one entry of task_args and submit a task that points to it.
FillSubmit ==
    LET s == SlotAfter(head, count)
        a == ArgIndex(count, fillCol)
    IN /\ Filling /\ fillCol > 0
       /\ taskArgs' = [taskArgs EXCEPT ![a] = [slot |-> s, col |-> fillCol]]
       /\ Pool!SubmitAll(<<[rg |-> next, col |-> fillCol, arg |-> a]>>)
       /\ IF fillCol = NumCols
          THEN fillCol' = 0 /\ count' = count + 1 /\ next' = next + 1
          ELSE fillCol' = fillCol + 1 /\ UNCHANGED <<count, next>>
       /\ UNCHANGED <<head, slot, reader, buffer, pc, batch, cached, work,
                      cursor, faults>>

FillDone ==
    /\ Filling /\ fillCol = 0 /\ ~Fillable
    /\ LeaveFill
    /\ UNCHANGED <<head, count, next, slot, reader, taskArgs, fillCol, batch,
                   cached, cursor, faults, poolVars>>

-------------------------------------------------------------------------------
(* carquet_batch_reader_next and carquet_batch_reader_free.                *)

\* Entry: retire the head slot when it is exhausted; serve from it directly
\* when it is not.
CallNext ==
    /\ pc = "user"
    /\ batch' = NoBatch
    /\ IF count > 0 /\ ~Exhausted(head)
       THEN pc' = "serve" /\ UNCHANGED <<head, count, slot>>
       ELSE /\ pc' = "fill1"
            /\ IF count = 0
               THEN UNCHANGED <<head, count, slot>>
               ELSE /\ slot' = [slot EXCEPT ![head].rg = 0]
                    /\ head' = SlotAfter(head, 1)
                    /\ count' = count - 1
    /\ UNCHANGED <<next, reader, taskArgs, fillCol, cached, cursor, faults,
                   poolVars>>

ReturnEnd ==
    /\ pc = "filled" /\ count = 0
    /\ pc' = "user"
    /\ UNCHANGED <<head, count, next, slot, reader, taskArgs, fillCol, batch,
                   cached, cursor, faults, poolVars>>

\* carquet_worker_pool_wait.
WaitPool ==
    /\ pc = "filled" /\ count > 0
    /\ AllTasksDone
    /\ pc' = "fill2"
    /\ UNCHANGED <<head, count, next, slot, reader, taskArgs, fillCol, batch,
                   cached, cursor, faults, poolVars>>

Serve ==
    LET left == slot[head].total - slot[head].consumed
        n    == Smaller(left, BatchSize)
        upTo == slot[head].consumed + n
    IN /\ pc = "serve"
       /\ batch' = [slot |-> head, first |-> slot[head].consumed, n |-> n]
       /\ slot' = [slot EXCEPT ![head].consumed = upTo]
       /\ cursor' = CursorAfter(head, upTo)
       /\ cached' = TRUE
       /\ pc' = "user"
       /\ UNCHANGED <<head, count, next, reader, taskArgs, fillCol, faults,
                      poolVars>>

\* The batch struct cannot be allocated: OUT_OF_MEMORY, nothing consumed.  The
\* next call retires a slot without rows, so its empty batch never comes.
ServeFails ==
    /\ pc = "serve" /\ ~cached
    /\ cursor' = CursorAfter(head, slot[head].consumed)
    /\ pc' = "user"
    /\ UNCHANGED <<head, count, next, slot, reader, taskArgs, fillCol, batch,
                   cached, faults, poolVars>>

CallFree ==
    /\ pc = "user"
    /\ pc' = "free" /\ batch' = NoBatch
    /\ UNCHANGED <<head, count, next, slot, reader, taskArgs, fillCol, cached,
                   cursor, faults, poolVars>>

\* Wait for the pool; then slots, task_args, readers and buffers are freed,
\* and the pool is destroyed unless it is borrowed.
FreeDrained ==
    /\ pc = "free" /\ AllTasksDone
    /\ pc' = "freed"
    /\ Pool!Close \/ UNCHANGED <<pending, running, finished, closed>>
    /\ UNCHANGED <<head, count, next, slot, reader, buffer, taskArgs, fillCol,
                   batch, cached, work, cursor, faults>>

-------------------------------------------------------------------------------
(* bulk_read_task on a pool thread.                                        *)

\* The oldest task starts and follows its pointer.
TaskStart ==
    /\ Cardinality(running) < Threads
    /\ Pool!StartOldest
    /\ LET t   == Head(pending)
           arg == taskArgs[t.arg]
           job == [slot |-> arg.slot, col |-> arg.col,
                   rg |-> reader[arg.slot][arg.col]]
       IN work' = [u \in running' |-> IF u = t THEN job ELSE work[u]]
    /\ UNCHANGED <<readerVars, buffer, faults>>

\* The task ends with the first n values of its column chunk decoded.
EndWith(t, n) ==
    /\ Pool!FinishTask(t)
    /\ buffer' = [buffer EXCEPT ![work[t].slot][work[t].col] =
                      IF RowCounts[work[t].rg] = 0 THEN @
                      ELSE [rg |-> work[t].rg, n |-> n]]
    /\ work' = [u \in running' |-> work[u]]
    /\ UNCHANGED readerVars

TaskDone(t) == /\ t \in running
               /\ EndWith(t, RowCounts[work[t].rg])
               /\ UNCHANGED faults

\* A page cannot be read, decompressed or decoded: col_num_values gets the
\* values before it (or -1), and nothing else remembers the failure.
TaskFails(t) ==
    /\ t \in running
    /\ faults < MaxFaults /\ faults' = faults + 1
    /\ \E n \in 0 .. RowCounts[work[t].rg] - 1 : EndWith(t, n)

-------------------------------------------------------------------------------
Init ==
    /\ head = 0 /\ count = 0 /\ next = 1
    /\ slot = [s \in Slots |-> [rg |-> 0, total |-> 0, consumed |-> 0]]
    /\ reader = [s \in Slots |-> [c \in Cols |-> 0]]
    /\ buffer = [s \in Slots |-> [c \in Cols |-> [rg |-> 0, n |-> 0]]]
    /\ taskArgs = [a \in ArgIndices |-> NoArg]
    /\ pc = "user" /\ fillCol = 0 /\ batch = NoBatch /\ cached = FALSE
    /\ Pool!PoolInit /\ work = <<>>
    /\ cursor = <<1, 0>> /\ faults = 0

FillStep == FillPrepare \/ FillFails \/ FillSubmit \/ FillDone
NextStep == FillStep \/ ReturnEnd \/ WaitPool \/ Serve \/ ServeFails
PoolStep == TaskStart \/ \E t \in running : TaskDone(t) \/ TaskFails(t)

Freed == pc = "freed" /\ UNCHANGED vars

Next == CallNext \/ NextStep \/ CallFree \/ FreeDrained \/ PoolStep \/ Freed

\* A call in progress and the pool's threads go on; no call has to be made.
Spec == /\ Init /\ [][Next]_vars
        /\ WF_vars(NextStep \/ FreeDrained)
        /\ WF_vars(PoolStep)

-------------------------------------------------------------------------------
(* Properties.                                                             *)

InFlight == running \cup {pending[i] : i \in DOMAIN pending}

\* The slot and column an unfinished task writes to.
Target(t) == IF t \in running THEN [slot |-> work[t].slot, col |-> work[t].col]
             ELSE taskArgs[t.arg]

\* The ring's counters stay in range, and every occupied slot holds one of
\* the row groups before rg_order_next, in order.
TypeOK ==
    /\ head \in Slots /\ count \in 0 .. Depth /\ next \in 1 .. Len(RowCounts) + 1
    /\ fillCol \in 0 .. NumCols
    /\ \A i \in 0 .. count - 1 :
           LET s == slot[SlotAfter(head, i)]
           IN /\ s.rg = next - count + i /\ s.total = RowCounts[s.rg]
              /\ s.consumed \in 0 .. s.total
    /\ taskArgs \in [ArgIndices -> [slot : Slots, col : Cols] \cup {NoArg}]

\* While the caller holds a batch its columns' buffers are the row group's,
\* whole, and no unfinished task writes to them, although the same next()
\* refilled the ring behind it (next's two calls of pipeline_fill).
BatchIntact ==
    faults = 0 /\ batch # NoBatch => \A c \in Cols :
        LET b == buffer[batch.slot][c]
        IN /\ batch.n > 0 => b = [rg |-> slot[batch.slot].rg, n |-> slot[batch.slot].total]
           /\ \A t \in InFlight : Target(t) # [slot |-> batch.slot, col |-> c]

\* Until a fault, the entry an unfinished task points to describes that task
\* and no other, and its column reader is set to its row group: reusing the
\* entries of task_args never catches a task in flight.
ArgsStable ==
    faults = 0 => \A t \in InFlight :
        /\ taskArgs[t.arg].col = t.col
        /\ reader[taskArgs[t.arg].slot][t.col] = t.rg
        /\ \A u \in InFlight : u # t => Target(u) # Target(t)

\* The pipeline is a row stream: rows in file order, none twice, none left
\* out, columns aligned, batches untouched until the next call, the end only
\* after the last row, and every call answered, faults or not.
Held == IF batch = NoBatch THEN <<>>
        ELSE [c \in Cols |-> Content(batch.slot, c, batch.first, batch.n)]

Stream == INSTANCE RowStream WITH
    Columns <- Cols,
    held    <- Held,
    asked   <- pc \notin {"user", "freed"},
    broken  <- faults > 0

ImplementsRowStream == Stream!StreamSpec

\* The comment in pipeline_fill: "Sharing a column reader across split tasks
\* would race on its reusable decompression buffer."
OneTaskPerColumnReader ==
    \A t, u \in running : t # u => Target(t) # Target(u)

\* batch_reader.c on rg_slot_t.total_rows: "total rows in this RG (min of col
\* values read)".  What a batch shows was read in every column.
ServedRowsWereRead ==
    batch # NoBatch => \A c \in Cols :
        batch.n = 0 \/ batch.first + batch.n <= buffer[batch.slot][c].n
===============================================================================
