# TLA+ models of carquet

carquet is a C library that reads and writes Parquet files. This directory holds
TLA+ modules translated from its source, TLC configurations that check them on
small instances, and proofs, checked by TLAPS, that hold for every value of the
constants: of the worker pool, both paths of the batch reader, the file writer,
the file reader, the RLE/bit-packing hybrid, the page bounds and the bloom filter.

Run TLC on a module with one of its configurations
(`tlc -config MCWorkerPool_safety.cfg MCWorkerPool.tla`), and tlapm on
`SequenceLemmas.tla` and each `*Proofs.tla`.

## 1. The system

Paths are relative to the repository's `src/` directory.

| Component | State it keeps | Operations | Where it is hard |
|---|---|---|---|
| worker pool, `reader/worker_pool.c` | circular task queue, `active_tasks`, `shutdown`, one mutex, three condition variables | create, submit, submit_batch, parallel_for, wait, destroy; the worker's loop | single-thread signals, a full queue, waiters of several clients, draining at shutdown, a thread that cannot be created |
| batch reader, pipelined path, `reader/batch_reader.c` | ring of row-group slots, `task_args`, column readers and buffers per slot | next, `pipeline_fill`, `bulk_read_task`, free | workers fill slots while the caller holds a batch that is a view of one; task arguments are reused; a fill or a decoding fails half way |
| batch reader, sequential path, `reader/batch_reader.c` | current row group, one column reader per projected column, the cached batch | next, opening and resetting readers, preload, prefetch, zero-copy clamp, copy | page boundaries that differ per column, views of the loaded page, columns read in any order by OpenMP, short reads |
| column and page readers, `reader/column_reader.c`, `page_reader.c` | position in the chunk, loaded page, `page_values_read`, `values_remaining`, dictionary | read_batch, skip, has_next, load a page, decode | two counts of the same position, failed loads, the dictionary page |
| file and row group readers, `reader/file_reader.c`, `mmap_reader.c`, `buffer_reader.c` | mapping or FILE, footer metadata, a cached range of the file | open, prebuffer and release, get_column, free | a file that ends early, a footer longer than the guess, the cache changing between pages |
| statistics and filters, `reader/statistics.c`, `metadata/statistics.c` | none | compare min/max with a predicate, choose row groups | statistics that do not know of a value |
| file writer, `writer/file_writer.c` | output, `file_offset`, open row group, recorded row groups, footer metadata | create, add columns, write_batch, new_row_group, close, abort, get_buffer | offsets computed before the bytes are written, automatic flush, calls that fail half way, what survives close |
| row group and column writers, `writer/row_group_writer.c`, `column_writer.c` | staged values or dictionary indices, finished pages, chunk sizes | write_batch, finalize (parallel or not), write to file, reset | state that leaks into the next group, fallback from dictionary to plain |
| page writer, `writer/page_writer.c` | values, levels and statistics of the open page | add values, finalize, reset | several adds into one page, page limits, levels |
| page index and bloom filter, `metadata/` | per-page min/max and null counts; filter bits | build, serialize | bounds that are cut, boundary order, block offsets, filters of different sizes |
| schema, `metadata/schema.c` | flat element list | build, walk to leaves and levels | nesting; levels computed twice, by the writer and from the file |
| thrift, `thrift/` | protocol cursor, last field id | encode and decode every metadata struct | field ids, nesting, unknown fields, early ends |
| encodings, `encoding/` | run or block state | RLE/bit-pack hybrid, delta, delta strings, dictionary, byte-stream split | run boundaries, wrap-around |
| core, `core/` | buffers, arenas, allocator hooks, bit packing | grow, allocate, reset | growth overflow |
| Snappy, `compression/snappy.c` | hash table, output so far | compress, decompress | copies that overlap their own output |
| other compression, SIMD, checksums, CLI, Arrow schema, WKB | none of interest | | |

How they interact. A batch reader owns or borrows a worker pool and submits
tasks that hold *pointers* into its own `task_args`; `carquet_worker_pool_wait`
is the only synchronisation between the two, and it waits for every client of a
shared pool. The sequential path calls column readers directly, in an order
OpenMP chooses. A batch handed to the caller is a view of reader-owned memory and
is valid until the next call. The file writer asks the row group writer for
finished bytes and chunk positions, and the row group writer asks its column
writers; all offsets derive from one running `file_offset` that is never
compared with the file. Inside a column writer, batches are cut into pieces, and
pieces are appended to a page; statistics, index entries and bloom filter are
gathered on the way and travel in the footer and behind the row groups, where a
reader decides by them what it need not read. The schema travels as a flat list
from which a reader computes again what the writer knew.

What makes each part correct:

* pool: no task lost or run twice, FIFO, no lost wake-up, wait and destroy cover
  everything handed over, every call returns;
* batch reader: the rows of the selected row groups once, in order, columns
  aligned, the caller's batch intact while it holds it, END_OF_DATA only at the
  end;
* column reader: its two counts agree, and all columns stand at the same row
  between calls;
* column chunk: what is read is what was written, levels and values, however the
  batches were cut, paged, coded and read; nothing that is there is ruled out;
* formats: what is written is read as it was meant, fields of a later version
  are skipped, and what lost its end is refused;
* file: it opens when it is whole and only then;
* writer: whatever was accepted is found again by following the footer, row
  groups are rectangles, offsets are where the bytes are, close says OK only for
  a whole file.

## 2. Modules

| Module | Models | Kind |
|---|---|---|
| `TaskPool` | what a pool promises: FIFO start, each task once, closed means idle | abstract specification |
| `WorkerPool` | `worker_pool.c` with all its threads | detailed, implements `TaskPool` |
| `WorkerPoolProofs` | theorems about `WorkerPool` | proofs |
| `PoolCreate` | `carquet_worker_pool_create` when `pthread_create` fails | detailed |
| `RowStream` | what `carquet_batch_reader_next` promises on either path | abstract specification |
| `BatchPipeline` | pipelined path over a `TaskPool` | detailed, implements `RowStream` |
| `BatchPipelineProofs` | theorems about `BatchPipeline` | proofs |
| `SequentialBatch` | sequential path with its column and page readers | detailed, implements `RowStream` |
| `SequentialBatchProofs` | theorems about `SequentialBatch` | proofs |
| `FileWriter` | file writer, row group writer and column writers | detailed |
| `FileWriterProofs` | theorems about `FileWriter` | proofs |
| `SequenceLemmas` | sequences put together from sequences, sums along them | lemmas the proofs share |
| `RleHybrid` | the RLE/bit-packing hybrid of `rle.c`, encoder and decoders | detailed, against the format's own reading |
| `RleHybridProofs` | theorems about `RleHybrid` | proofs |
| `ColumnStats` | minimum and maximum of a page and of a chunk, and the predicate over them | operators |
| `PageFormat` | what a page holds: levels, values, versions, checksums | operators |
| `ColumnWriter` | `column_writer.c` over `page_writer.c`: pieces, pages, dictionary, fallback, index entries | operators: an operation gives the writer it leaves |
| `ColumnReader` | `column_reader.c` over `page_reader.c`: loads, batches, skips, buffers | operators, likewise |
| `ColumnChunk` | a chunk from the writer's batches to the reader's, with loads that fail and damage | composition |
| `BitPacking`, `DeltaEncoding`, `PlainEncoding`, `Snappy` | the algorithms, byte by byte | pure functions |
| `Codec` | encode, lose the end, decode | composition of the four |
| `Thrift`, `ParquetTypes` | the compact protocol, byte by byte; the structs as tables | operators |
| `SchemaBuilder` | the calls that build a schema, and the reader's walk over the flat list | detailed |
| `PageBounds` | what is gathered about pages: bounds, null counts, places, the chunk's bounds merged from them; page search | detailed |
| `PageIndex` | both page indexes as they are written and read | operators over `PageBounds` |
| `MetadataFile` | metadata built, written (also by a later version), cut, read | composition of the four |
| `BloomFilter` | `bloom_filter.c`, in memory and in a file | detailed |
| `PruningProofs` | theorems about `PageBounds` and `BloomFilter` | proofs |
| `FileReader` | opening a file in every way, the cached range, page reads by position | detailed |
| `FileReaderProofs` | theorems about `FileReader` | proofs |
| `MC*` | instances for TLC: symmetry sets, row group and page layouts | |

`BatchPipeline` uses the *abstract* pool and `WorkerPool` is shown to implement
it, so the two compose without multiplying their states.

### WorkerPool

Every shared field is accessed under the pool's mutex, so one action is one
critical section: from taking the mutex (or waking from a wait) to releasing it
(or going to sleep). A condition variable is the set of its sleepers.
`SignalOne` removes any one sleeper, and `SpuriousWake` covers the wake-ups POSIX
allows in addition. `WorkerRun` is the task body, outside the lock.
`parallel_for` is its loop of submits followed by a wait; `submit_batch` fills
what fits, broadcasts and sleeps. `fresh` and `finished` are history variables.
The model takes two things from the API's contract: nobody calls a pool that is
being destroyed, and a task does not submit tasks.

### PoolCreate

The failure path sets `shutdown` and broadcasts without the mutex, so a critical
section is no longer atomic with respect to it. This module splits the worker's
first critical section at every point where the creating thread can come between.

### BatchPipeline

`slot`, `reader`, `buffer` and `taskArgs` are the arrays of the same roles. A
task carries the index of its `task_args` entry; which slot, column and row group
it works on is looked up when it starts (`work`), as the C task dereferences its
pointer. `FillPrepare` resets the readers of one slot, `FillSubmit` writes one
entry and submits it, `FillFails` is each early return of `pipeline_fill`.
Decoding one column chunk is one atomic task, with any shorter prefix when it
fails. `max_splits_per_col` is 1 in the code, so a column is never split.

### SequentialBatch

A column reader is its pages passed, whether a page is loaded, how much of it
was read, and `values_remaining`. The three kinds of column are those the code
tells apart: viewed in the mapping (`plain`), viewed in the decompression buffer
(`packed`), and decoded into a buffer (`coded`). `PreloadFails` and `LoadPages`
are the two loading passes before the columns are read; `StartColumn`,
`CopyPage`, `CopyFails` and `CopyDone` interleave over the columns in any order.
`read_error` is read and written in single steps; in C it is a plain `bool`
shared by OpenMP threads.

### FileWriter

The output is a sequence of cells: magic, one value, one block, footer. An
operation is the set of its outcomes, so a sequence of C statements with early
returns is written `Then(Then(EnsureHeader(w), ...), ...)` and each failure is
one more outcome, with the partial writes it may leave. The flush records chunk
positions from the row group writer's base, appends the bytes, then blooms and
indexes in the order the code writes them, and resets the writers. A dictionary
column may fall back to plain at any finalization. The byte estimate is chosen
freely from {0, n, INT64_MAX - 1}, since the code's estimate depends on data.

### RleHybrid

A stream is a sequence of runs, not of bytes: each has its header (kind and
count) and what of its data is present, so a stream that breaks off in a header,
a value or a group is a sequence whose last run is incomplete. `Runs` is what a
stream can consist of at all, with counts up to what a header holds
(`LongestRun`). `StreamValues` is
the reference: the values a reader of the Parquet format finds up to the first
missing byte. Puts build a stream, `Flush` hands it to the decoder, and calls of
`Get`, `GetBatch` and `Skip` follow in any order; the decoder also starts on
streams of other writers, which have empty runs and packed runs of several
groups. `Consume` is the loop that get_batch and skip share, `Round` one turn of
it, which takes from what the current run or group offers (`Offered`); get is the
case of one value. `DecodeLevels` and `DecodeToBitmap` are the two functions that go
over a stream in one sweep.

### ColumnStats, PageFormat, ColumnWriter, ColumnReader, ColumnChunk

A row is its levels and its value; values are small numbers in the order of the
type, with one that stands for NaN and one for the empty string, because the code
treats exactly these differently. A page is, for each of its three streams, a
sequence of *sections*, one per call of the page writer that appended to it: that
is what tells a page fed once from one fed twice, which the code writes
differently for level streams and packed booleans. `Write` cuts a batch the way
`carquet_column_writer_write_batch` does, and notes (`misplaced`) when a piece
took its values from the wrong place, so `RoundTrip` can speak of all other
chunks. A byte array handed out is a pointer: the mapping, the dictionary, the
buffer a page is read into, the one it is decompressed into, or a copy; `Deref`
looks it up when the caller does, after later pages were loaded. `MCColumnChunk`
enumerates which kinds, codings, versions, codecs and ways of reading go together.

### BitPacking, DeltaEncoding, PlainEncoding, Snappy, Codec

These work on bytes of few bits and words of few bytes, with the wrap-around of
the C types (`% 2^w`) and the block sizes as constants. The kernels are the
scalar ones of `simd/dispatch.c`. A compressed block is the bytes of the length it
announces and a sequence of literals and copies: how many bytes their tags take
is left out. `Codec` is the life of one stream: given, encoded, perhaps cut,
decoded; a block is cut in the announced length, in an element or between two.
Two streams are accepted without a look at them, and the model does so too:
`carquet_snappy_decompress` makes no bytes of no bytes (`compression/snappy.c:462`),
and `decode_phase3_values` returns OK for DELTA_BYTE_ARRAY before the decoder
reads its header when no value is asked for (`reader/page_reader.c:897`).
`CutStreamsAreRefused` names both and asks that no value comes of them.

### Thrift, ParquetTypes, SchemaBuilder, PageBounds, PageIndex, MetadataFile

`Thrift` has the bytes of the protocol: varints, zig-zag, the halves of field and
list headers. A decoder is its position, status, depth and pending bool, as in
`thrift_decoder_t`; a read that fails leaves it failed, except in `thrift_skip`,
whose calls of `carquet_buffer_reader_skip` nobody checks (`Jump`). Each struct is a
table for the writer (`...Rows`) and one for the reader, because parquet_types.c has a
function for each. `Documents` are filled-in structs. Some are of a later writer,
with one field more that a reader must skip, of each of thirteen kinds: in the
footer, its elements, key-value pairs and columns ("records"), or in the bounding
boxes of columns ("box"). `LoseTail` cuts a document at any byte. `SchemaBuilder` has the writer's bookkeeping and the reader's
traversal side by side. `PageBounds` has the two builders of `page_index.c`, one
action for each page that `flush_current_page` ends; `Merged` is
`merge_page_statistics`, which leaves out a page one of whose bounds has no bytes,
and `FooterBounds` how `build_file_metadata` cuts what has been merged. The writer's
order of values (`Before`) and the one by which the index is asked (`IndexBefore`)
differ for floats. One zero stands for both, and NaN, which never becomes a
bound, is left out (`ColumnStats` has it). A range has ends of one length, because
`carquet_column_index_page_might_match` is given one `value_len`, and those of
integers their width. `PageIndex` turns the entries into bytes and back: lists
are as long as the writer made them and the reader pads what is short.

### BloomFilter

Bits are triples of block, word and position; a hash selects one bit per word.
`Merge`, `Write`, `CutFile` and `ReadFilter` move whole filters. `values` and
`stored` are history.

### FileReader

A file is a sequence of cells: magic, pages with headers of one cell or more,
metadata, length, magic. `ReaderInit` cuts it anywhere, or leaves something
behind its end. `Open` is one of three ways in; four bytes that are no length are
any number. A stream is read through `ReadAt`, which is `prebuf_read_at`:
`Prebuffer` may replace the cached range, or lose it when reading fails, between
any two pages. `HeaderCells` is the loop that guesses the length of a header and
grows.

## 3. What is checked

| Run | Question | Result |
|---|---|---|
| `worker_pool_safety` | Two workers, three clients, five tasks, two slots: tasks conserved, no lost wake-up on any condition variable, wait and destroy cover everything | holds, 37 379 states |
| `worker_pool_live` | Two workers, two clients, three tasks, one slot: every call returns, and the pool implements `TaskPool` | holds, 24 878 states |
| `pool_create` | Does creation return when a thread cannot be created? | violated, see findings |
| `batch_pipeline` | Five row groups (the first and another empty, one longer than a batch) through a four-slot ring with two faults: batches intact, arguments stable, implements `RowStream` | holds, 34 132 states |
| `batch_pipeline_shared_reader` | May two threads decode with one column reader? | violated |
| `sequential_batch` | Every mix of column kinds over four row groups with differing page boundaries, two faults: counts agree, columns in step, implements `RowStream` | holds, 4 054 states |
| `file_writer` | Two columns, batches of up to two rows, file and buffer, blocks or none, one failure anywhere | holds, 346 416 states |
| `column_chunk` | 24 columns, chunks of up to three rows in batches of up to three, pages of four cells, one fault: round trip, statistics and page index, every call fills its batch | holds, 65 363 states |
| `column_chunk_split` | Does `write_batch_size` leave the data alone? | violated |
| `column_chunk_pruning` | Is a row group that is ruled out free of matches? | violated |
| `encodings` | All sequences of up to nine puts into the hybrid and 1 295 streams of other writers; every codec over short inputs and inputs around its block sizes, whole and cut anywhere | holds, 496 949 states |
| `metadata` | Schemas of up to five elements, page indexes of two pages of four kinds, 148 other documents (39 of a later writer) cut at any byte, two bloom filters, files of up to seven data pages cut anywhere | holds, 152 941 states |

Bounds, and why they suffice. The ring has 512 slots in C (`CARQUET_POOL_QUEUE_CAPACITY`); with
two slots it wraps, fills up and makes two submitters compete, and a batch of
three is longer than the queue. Nothing in the code depends on a larger capacity
(and the proofs hold for any). In the pipeline the ring's depth is
`2 * num_threads`; five row groups make it wrap, so positions and slots differ,
which is what the reuse of `task_args` depends on. Two faults are enough for a
failed fill followed by a failed decoding. In `SequentialBatch` the layout has
pages that end at different rows, pages that end together, an empty row group
and a rejected one, and every assignment of kinds to two columns. In `FileWriter`
four rows of batches of up to two against a limit of two give automatic flushes
at, before and after the end of a round; one fault can strike any write or
allocation. In `RleHybrid` a group has three values instead of eight and values
are bits; runs below, at and above a group, a buffer that fills in the middle of
a run, and calls that stop inside a group all occur with nine values and calls
for up to four; a header holds counts up to 100, which no run comes near. In `ColumnChunk` a page of four cells takes one to four rows, the
dictionary and its fallback have limits of two, and reads and skips of up to
three rows begin and end inside pages; one fault is enough, since the reader has
no memory of an earlier one but its position. In `Codec` bytes have four bits,
`int32_t` eight and `int64_t` sixteen, a delta block eight values in two
mini-blocks; inputs reach over one, two and three blocks and hold the extremes
whose differences wrap. Snappy's margins are small enough for its search, its
skipping and copies that overlap to occur in seventeen bytes. In the
metadata the protocol has its own constants: a later writer's field has id 40,
further than a short field header reaches, and a list of fifteen needs the long
list header; lists may have twenty elements, and of more than fifteen geospatial
types the rest is dropped. Numbers take up to three bytes of a varint. The
doubles and UUIDs of a later writer have zeros among their bytes, which a reader
that does not pass over them takes for the end of a structure. Floats have three
bits, a fraction, an exponent and a sign, so that their order and that of their
bytes differ in every way.
Schemas of five elements have groups in groups, lists and maps; bounds are two
bytes of one bit, so that raising carries and runs over. Filters have one or two
blocks, which is all `Merge` tells apart. In `FileReader` the guess at the footer
is one cell too short, headers have one to five cells where the guesses are 1, 4
and 6, and pages end in what looks like the end of a file. `MCEncodings` and
`MCMetadata` run independent machines from one initial state each, so that
no product of them is built.

Deadlock is checked except in `FileWriter` (a closed writer has no next
operation), `PoolCreate` (the call has returned), `Codec` (a stream is decoded
once), and the metadata and file readers (the same).

Fairness. `WorkerPool`: weak fairness of each worker's and each client's own
steps once it is inside a call, and of the join; nobody is obliged to begin a
call. This is what a scheduler that runs every runnable thread gives, with a
mutex that is eventually granted. In `PoolCreate`, whose critical sections are
split, it is strong fairness of each worker, since the mutex is free again and
again but not always. `BatchPipeline`: weak fairness of the call in progress and
of the pool as a whole, which is what `WorkerPool` is shown to provide.
`SequentialBatch`: weak fairness of the single call in progress. The other
modules have safety properties only: their operations are sequential and always
return.

After a fault. What a batch reader delivers after a failed load is not specified
anywhere in the repository, so `RowStream` gives up its promise about the data at
the first fault (`broken`) and keeps only: every call returns. The same holds for
`FileWriter` (`Sound`). A column reader does promise something: after a load that
failed, the next call goes on where the rows are (`CallsFillBatches`); and a
damaged page is refused where the format has a checksum (`RoundTrip`). The
findings say what happens then where the code makes a
promise.

Type invariants. `TypeOK` is in the runs of the worker pool, where the theorems
rest on it, and of the file writer. The other state machines define theirs too, or
have records whose shape every property relies on; they are not part of a run.

Could a property fail? Beside some definitions stands a variant named for a
slip (`QueueFullOffByOne`, `RunBeforePack`, `LoadedKeepingRead`, ...), which
nothing uses. Put in the place of the definition it varies, each makes TLC report
a violation; `mutants` in `PROJECT.json` pairs every property with one.

## 4. What is proved

Each theorem below holds for all values of the constants that satisfy the
module's assumption; further hypotheses are in its statement and explained here.
The inductive invariants were checked by TLC on the runs' instances first.

### Worker pool (`WorkerPoolProofs`)

`WorkerPoolAssumption`: a finite non-empty set of workers, a finite set of
clients disjoint from it, a positive capacity.

* `TypeCorrect`: the type invariant, including that `active_tasks` never leaves
  `0 .. number of workers`;
* `NoTaskIsLostOrDoubled`: a task handed over is in the ring, with one worker or
  finished, and in one place only;
* `WaitIsComplete`: when `carquet_worker_pool_wait` returns, all tasks handed
  over by any client have run (an action property);
* `DestroyIsComplete`: when the pool is freed, all have run and no thread is left;
* `NoLostWakeUp`: single signals on `work_available` and `queue_not_full`, and
  the broadcast on `work_done`, never leave a thread asleep through the event it
  waits for; `SubmittersWoken` and `WaitersWoken` are what it says of submitters
  and waiters, in the form the runs check;
* `ImplementsSafely`: the pool implements the safety part of `TaskPool`
  (`PoolSafeSpec`: FIFO start, each task once, closed only when idle), for a
  finite set of tasks.

The argument. `Types` strengthens the type invariant with what makes the ring a
window: `queueTail` is `queueCount` places after `queueHead`, every slot in
between holds a task, and `active_tasks` is exactly the number of workers between
their dequeue and their decrement. The last is needed for wait: an idle count
says that nobody runs a task only if the count is exact. `Conserved` adds that
the tasks still in argument arrays are apart from each other and from those not
yet used, without which a task could enter the ring twice. `Stopping` says that
shutdown is set exactly when the owner is joining or has left, and that an exited
worker saw an empty queue; since nobody enqueues after shutdown it stays empty.
`Sleepers` says who may sleep on what. The three counting properties of
`NoLostWakeUp` are then inductive themselves: each enqueue adds one task and
wakes one worker if one sleeps, and dually for slots. The lemmas on ring
arithmetic (`SlotAfterAdds`, `RingDistance`, `EnqueueAppends`, `DequeueShifts`)
carry the modular reasoning. For the refinement the abstract queue is the ring
read from its head, so an enqueue is an append, a dequeue takes the first task, and
every step inside a critical section that moves no task stutters.

### Batch reader, pipelined path (`BatchPipelineProofs`)

* `RingKept`: the type invariant; occupied slots hold consecutive row groups;
* `HeldBatchIntact`: until a fault, the batch the caller holds shows whole
  columns of its row group and no task in flight writes to them, although next()
  has refilled the ring behind it;
* `EntriesStable`: until a fault, the `task_args` entry of a task in flight
  describes that task;
* `ImplementsSafely`: the safety part of `RowStream` (`StreamSafeSpec`), with
  faults at any point.

The invariant is `Types /\ Ring /\ FaultFree`. `Ring` ties the head
slot to the held batch and to the cursor, and says where a fill that is under way
stands. `FaultFree` says why reusing `task_args` is harmless: until a fault, tasks
are in flight only in the first fill of a call and in the wait after it; the second
fill finds nothing to do; entries are used in the order of positions; and every
column of an occupied slot is filled or being filled. Neither `BatchIntact` nor
`ArgsStable` is inductive without it. Once a fill has failed half way it is
false, and finding 2 is what follows.

Looking for this proof showed one case the abstract specification had left out.
After a failed fill at a head slot whose row group is empty, next() reports the
error and the next call retires that slot, so the empty batch of that row
group never comes; `RowStream`'s `Error` may therefore pass over an empty row
group (it loses no row). The run's layout now begins with an empty row group.

### Batch reader, sequential path (`SequentialBatchProofs`)

`SequentialBatchAssumption` asks for at least one row group and one column,
because next() asks the first column's reader whether there is more.

* `TypeCorrect`, and `CountsAgreeAlways`: what a column reader believes is left
  of its chunk is what lies behind its position in the pages, through views,
  copies across pages and failed loads. No further hypothesis: pages and callers
  are arbitrary.
* `ColumnsStayInStep`: until a fault all columns stand at the same row between
  calls, whatever their pages and in whatever order OpenMP reads them. Hypothesis
  `Rectangular`: the columns of a row group have the same number of rows. The
  format demands it and the code relies on it without a check;
  `GroupsAreRectangularHolds` below is its other side.
* `StoppingCallersAreSafe`: next() never asks a column reader that was not
  created. Hypothesis `~Persistent`: the caller stops at a status that is not OK.
  Without it the claim is false (finding 6).
* `ImplementsSafely`: the safety part of `RowStream`, under both hypotheses, with
  faults at any point.

The argument. `Counts` is `Types`, `Placed` (where next() is among the row groups,
and when its readers matter) and `Counted`: every reader is `Whole`, that is, it stands
in one of its pages and its two counts add up to the chunk. `Filling` says that a
batch under way has a row for its first column, which is why next() cannot
deliver an empty batch for ever. `InStep` cannot speak of positions while columns
are filled in any order; it says that what a column has left *and* has put into
the batch is the same for all. `Tracked` and `Windows` give the refinement: the
abstract cursor is the first column's position, and what is in the batch is a
window of the row group from there.

### File writer (`FileWriterProofs`)

For any number of columns, any batches, limits, blocks and outputs; after a
failure the properties promise nothing (`Sound`), except for the types:

* `TypeCorrect`: the type invariant, with the byte estimate inside `int64_t`;
* `EveryValueOnceHolds`: every value `write_batch` accepted is in a chunk the
  footer leads to or still staged, once and in order;
* `BlocksWhereRecordedHolds`, `OffsetIsLengthHolds`: recorded offsets of bloom
  filters and indexes lead to the column's own block; `file_offset` is the
  length of the output, and the open group's base is `file_offset`;
* `ClosedFileIsWholeHolds`: a file closed with OK begins with the magic, ends
  with the footer, and the footer leads to every accepted value;
* `AlignedGroupWithinLimitHolds`, `GroupsAreRectangularHolds`: an aligned open
  group is within `row_group_size`, and a row group's `num_rows` is the number of
  values in each of its chunks. Hypothesis `~SplitBatches`: the caller gives a row
  group one batch per column. Without it both are false (finding 7).

`Intact` is the invariant of a writer in which nothing has failed: `Tidy` (between
operations no finished pages are left and the counts are those of what is
staged: state that leaked into the next group would break it), `Placed`,
`Located` (chunks and blocks lie inside the output), `Kept` (chunks and staged
values of a column, put together, are what was accepted) and `Summed`; a closed
writer is `Ended`. An operation is a set of outcomes composed by `Then`, so each
part (header, finalization, data, blocks, reset) has a lemma of its own about
what it does to `Good`, and the lemmas compose the way the code calls its parts.
`Uniform` adds `Aligning` and `Rectangles`.

### File reader (`FileReaderProofs`)

For any row groups, chunks and pages, any length of the footer and any sizes of
the guesses at footer and headers. `FileReaderAssumption` says what a file is
(`FilePages`, `FileChunks`, `OfTheFormat`):

* a page may hold anything that is not metadata itself. A file whose pages hold
  another Parquet file, cut right behind that one, has a footer and opens;
* a page header is no longer than the last guess
  (`CARQUET_MAX_PAGE_PAYLOAD_SIZE`, 256 MiB), beyond which the code refuses it
  (`reader/page_reader.c:1880`);
* a chunk has at most one dictionary page, and where it has none its data is
  where the metadata says it is.

The theorems:

* `OnlyWholeFilesOpenHolds`: a closed file opens in every way with its metadata;
  one that was cut anywhere, or has something behind its end, opens in none;
* `PagesAreTheFilesHolds`: pages are read as they were written and none fails,
  whichever ranges of the file were cached, lost or released in between;
* `ReaderInvariant`: the invariant both rest on.

The argument. The only metadata cell of a file lies `FooterCells + 2` cells
before its end (`FileIs`). Wherever a cut file ends, the length found there, a
real one or any number, would have to lead to that cell with all the others
behind it, and they are not there (`MetadataIsAtTheEnd`); that reading a guess
first gives the same cells as reading the footer by its length is `FooterRead`.
`Cached` says that what is cached is a range of the stored file, so a read
through the cache is a read of the file (`ReadAtIs`), and the fourfold guesses
end with the header whole (`HeaderCellsIs`). `Reading` ties a column reader to
the file: its next place is the chunk's place and the sizes of its dictionary
and of the pages it has read. `PageLies` and `DictionaryLies` say that the page
meant is what lies there; they rest on sums along the flattened file
(`SequenceLemmas`). For a chunk with a dictionary, the place of the data given by
the metadata is arbitrary in this proof: the code goes on behind the dictionary.

### RLE/bit-packing hybrid (`RleHybridProofs`)

For any set of values, any size of groups above one, any puts, any calls, and any
streams of other writers made of `Runs`, cut wherever they may be.
`RleHybridAssumption` also asks that no more is put than one header can count
(`MaxValues` is at most `LongestRun`): `flush_rle` shifts an `int64_t` count into a
`uint32_t` header without a check (`encoding/rle.c:308`), and a longer run of
equal values would be written with a wrong count.

* `EncodedIsGivenHolds`: the stream, the bit-pack buffer and the current run are
  the values put, in order, and the stream is whole;
* `DeliveredInOrderHolds`: any mix of get, get_batch and skip takes exactly the
  next values;
* `ShortMeansEndHolds`: a call that takes less than was asked has come to the end,
  with an error exactly when the stream is cut;
* `LevelsAgreeHolds`: the two decoders that sweep over a whole stream give its
  first values, as levels or as bits, whichever run or group the limit falls into;
* `HybridInvariant`: the invariant they rest on.

The argument. While puts go in, `Holds` says that the stream is whole and what
it, the buffer and the current run stand for is what was given. None of the
properties says where the decoder *is*; `StandsAt` does: after p values, a decoder
between two runs has `Place(at - 1) = p`, the number of values in the runs before
it (`Between`); inside a repeated run, what is left of the run is what lies
between p and the end of its values (`InRle`); inside a packed one, the same
holds in groups, and the group in hand is the end of the group last taken
(`InPacked`, `InHand`); a decoder with an error has delivered everything in front of the
place where bytes are missing. `DeliveredInOrder` is not inductive without it:
where a group that was taken in part is forgotten, the values delivered so far are
still right. One turn of the loop keeps `StandsAt` and moves p by what it takes,
or the loop ends (`RoundAt`), and it makes progress in every turn, so that as many
turns as values asked for are enough (`ConsumeAt`). The reference `StreamValues` flattens all
runs up to the first incomplete one; lemmas on flattened sequences
(`SequenceLemmas`) find a run, and a group in it, at its place there. The sweeping
decoders satisfy one equation: storing a run behind what is stored so far, as far
as there is room, is storing as much of both together as there is room for
(`Capped`, `RunSwept`, `BitsSwept`). `RunsOf`, `Consume` and the sweeps are recursive
functions; each is shown to be the sequence of its steps (`RunsUpToIs`,
`TurnsAre`) before anything is said about them.

### Page bounds (`PruningProofs`)

`PagesAreFound` is `IndexFindsPages` for values and bytes of any width, bounds
cut to any length, and pages of any number and size. What it says, and what not:

* no page with a value of the range is skipped by its entry, in columns of
  integers and of byte arrays. Of floats it says nothing, since the code does
  skip them (finding 11);
* no chunk is passed over by the bounds in its footer for a value of a page whose
  bounds have bytes. A page with an empty byte array is not merged into them, and
  its values may be outside (finding 4). Floats are included: the writer merges
  them in their own order;
* pages lie behind one another in bytes and in rows.

Its assumptions (`PageBoundsAssumption`) say that integers are single words that
fit their width, that byte arrays are made of bytes, and that a float has a
place among the floats (`FloatNumber`). The argument. The order of
`compare_stat_values` is first shown to be one (`Ordered`): irreflexive, transitive,
and a value that is between two others separates them. For byte arrays this rests
on the first byte where two of them differ (`BytesBeforeIs`). Any finite set of values
then has a least and a greatest one (`ExtremesAre`), a lower bound cut short lies
before nothing it should not (`ShortenedBefore`), and an upper one, cut at the
last byte below `ByteMax` and raised there, comes behind what it stands for
(`RaisedIs`); where no byte can be raised there is no bound. The invariant
`IndexInv` says that every entry is the one of its page's values and, in
`BoundsCoverPages`, that the bounds merged so far are none at all or two with bytes,
and cover every page that has such bounds itself. `MergedCovers` is its step: a
merge covers what was covered and the page it takes in. It would fail if one
bound were merged where the other has no bytes, which is what
`merge_page_statistics` avoids by leaving the page out. `FooterHolds` then takes
cover to the bounds as cut. Offsets and rows are in order because each place
begins where the last one ends.

### Bloom filter (`PruningProofs`)

`NeverDenies`, for any set of filters and hashes, any number of words, salts and
widths, and filters of any size: a value that was inserted, merged in, or
stored and read back is never denied. `NoFalseNegatives` alone is not inductive,
because a filter may come from the file: `FileIsHonest` adds that what is in the file is shorter
than its header says or has the bits of every value stored. Merging keeps the
property only because sizes are equal: the same hash then selects the same bits.

### Sequences (`SequenceLemmas`)

What the community modules' `FlattenSeq` and `FoldSeq` give for any sequence:
appending, the place of a part, windows that later appends leave alone, sums of
sums. Induction over the natural numbers is done through the set of numbers
below which a statement holds, because the library's induction theorems take an
operator as a parameter, which the installed provers cannot instantiate.

### Only model-checked

* Liveness (`CallsReturn`, `CreateReturns`, the `Answered` part of `RowStream`
  and so the full `ImplementsTaskPool` and `ImplementsRowStream`): TLAPS has no
  support for fairness and ENABLED.
* Column chunks, the codecs and the metadata's formats: what they compute is
  recursive over data. `Thrift`, `SchemaBuilder`, `ColumnWriter` and
  `ColumnReader` use RECURSIVE operators, in modules without theorems.
  That the page index is read as it was written belongs here too
  (`MetadataIsRead`); what its entries promise is proved.

## 5. Findings

Each of these has a run that TLC finds violated.

1. `pool_create`: `carquet_worker_pool_create` may hang instead of returning NULL
   when a thread cannot be created (`reader/worker_pool.c:202`): `shutdown` is set
   without the mutex, and a worker between its test and its wait misses the
   broadcast.
2. `batch_pipeline_shared_reader`: a fill that fails half way lets the second
   fill of the same call submit tasks that nobody waits for; once the head slot
   is retired the entries of `task_args` shift and those of queued tasks are
   overwritten (`reader/batch_reader.c:1322`).
3. `column_chunk_split`: with `write_batch_size` a batch of a nullable column is
   cut by rows although its values are dense, and the second piece takes the
   values of later rows, or memory behind the array (`writer/column_writer.c:856`).
   The same loop appends a second piece to an open page, which V1 levels and
   packed booleans do not survive: such a page cannot be read, or reads wrongly.
4. `column_chunk_pruning`: `merge_page_statistics` leaves out a page whose
   smallest byte array is the empty string, so the chunk's minimum is too high
   and a row group with matches is ruled out (`writer/column_writer.c:512`).
   A dictionary column of doubles whose first entry is NaN keeps NaN as its
   bounds and is pruned wrongly too (`writer/column_writer.c:921`).

These are in the models, each with a property in its module that names it and
that TLC finds violated when it is made an INVARIANT of the passing run's
configuration (with the constants named below changed, where any are); they are
not configurations of their own.

5. `ServedRowsWereRead` (`BatchPipeline`): `total_rows` is the row group's row
   count, not the minimum of the values read as the field's comment says
   (`reader/batch_reader.c:90`); a column that failed to decode is served with
   status OK.
6. `NeverNullReader` (`SequentialBatch`, with `Selected = {}` and `Persistent = TRUE`): next() after
   END_OF_DATA, when the filter rejected every row group, uses a NULL column reader.
7. `RowsAreLongestColumn` (`FileWriter`, with `SplitBatches = TRUE`): `num_rows` is the longest *batch*, not
   the longest column; such a row group also never counts as aligned for
   automatic flushing.
8. `TablesFreedOnce` (`FileWriter`): close and then abort of a buffer writer,
   which a comment in close allows, frees the per-column tables twice.
9. `SchemaSurvivesAnyOrder` (`MetadataFile`): a schema whose elements are not
   added in depth-first order is written as it was built and read as one. A refused add_list or add_map leaves its groups behind, and an empty
   group is read as a column.
10. `UnknownFieldsAreSkipped` (`MetadataFile`): `thrift_skip` takes a bool to be part
   of a header, also as the element of a list or set, where it has a byte of its
   own (`thrift/thrift_decode.c:384`); the bytes of an unknown list of bools are
   then read as the fields behind it. The reader of a bounding box does not skip
   at all: it takes eight bytes from every field, whatever its id and type
   (`thrift/parquet_types.c:611`). `MetadataIsRead` names both (`IsMisread`). And
   `thrift_skip` ignores that a byte, a double or a UUID is not all there
   (`thrift/thrift_decode.c:391`, `:401`, `:444`): it stays where it is, so a footer
   that was cut in an unknown double or UUID with a zero at the right place is accepted.
   `CutMetadataIsRefused` names these (`IsLeftToBeRead`); it asks that every other
   cut, at any byte of any document, is refused.
11. `AllPagesAreFound` (`PageBounds`): `compare_index_values` knows INT32 and INT64
   and compares the bytes of everything else, also of FLOAT and DOUBLE, which are
   stored low byte first (`metadata/page_index.c:301`), so pages of floats are
   skipped that hold the range asked for.
 add_list or add_map leaves its groups behind, and an empty
   group is read as a column.

Seen while modelling, and outside the models' bounds or properties: a fill that
fails with no slot in flight is reported as END_OF_DATA
(`reader/batch_reader.c:1406`, `FillFails` followed by `ReturnEnd`); INT32 DELTA
pages of thousands of alternating extremes outgrow the room taken for them and
are refused (`writer/page_writer.c:939`); the stream path never looks at the
magic at the beginning of a file, which mapped files and buffers must have
(`reader/file_reader.c:256` and `:381`); the bit writer loses bits of numbers
wider than nine bits (`core/bitpack.c:484`, used by tests only).

## 6. What is not modelled

* Compression other than Snappy, checksums and hashes as functions, the SIMD
  kernels and fused gathers (their scalar equivalents are), the bytes of
  Snappy's tags, numbers of more than four bytes of a Thrift varint.
* Nested columns beyond their levels, preserved dictionaries and the pipeline's
  coalesced decoder in the readers; key-value metadata and timestamp coercion in
  the writer; geospatial statistics.
* The choice of path when a batch reader is created, and the per-slot mapping.
* Buffers, arenas and allocator hooks: where allocation can fail, the calling
  module has the failure as an outcome.
* Windows threads: the same calls behind macros.
* The CLI, generated code, the Arrow schema writer and the bindings: no state.

## 7. Plan

1. *Row stream and pool*, *writer*, *column chunks*, *algorithms*, *formats*,
   *files*: done, as section 2 lists them.
2. *Proofs.* Done for the worker pool, both paths of the batch reader, the file
   writer, the file reader, the hybrid, the page bounds and the bloom filter. Next:
   `SchemaSurvives` for depth-first callers, whose walk over the schema must first
   become a recursive function in a module apart from `Thrift`.
3. *Composition.* `FileWriter`'s cells opened by `FileReader`: an abstract table
   file ("what was accepted before a successful close is what a reader finds")
   that both implement together with `ColumnChunk`.
4. *What is left.* Preserved dictionaries, the list of filters of a batch reader,
   buffer growth and arenas.
