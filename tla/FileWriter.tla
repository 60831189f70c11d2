------------------------------ MODULE FileWriter ------------------------------
(***************************************************************************)
(* carquet_writer (file_writer.c) with the row group writer and the column *)
(* writers under it (row_group_writer.c, column_writer.c): batches are     *)
(* staged per column, a flush turns them into one column chunk after       *)
(* another, every offset the footer will name is computed before the bytes *)
(* it points at are written, and the row group writer is reset and used    *)
(* again.  Bytes are counted in cells: the magic, one value, one bloom     *)
(* filter or index block and the footer take one cell each.                *)
(*                                                                         *)
(* An operation is written as the set of its outcomes: the writer it       *)
(* leaves and whether it returned CARQUET_OK.                              *)
(***************************************************************************)
EXTENDS Integers, Sequences, FiniteSets, SequencesExt

CONSTANTS NumCols,      \* columns of the schema
          Limit,        \* options.row_group_size
          Int64Max,     \* INT64_MAX
          BlockSets,    \* what may be written after a group: "bloom", "index"
          Threaded,     \* built with OpenMP
          SplitBatches, \* the caller spreads a group's column over batches
          MaxBatch,     \* bound: values in one batch
          MaxRows,      \* bound: values in one column
          MaxFaults     \* bound: writes and allocations that fail

Cols == 1 .. NumCols

ASSUME FileWriterAssumption ==
    /\ NumCols \in Nat \ {0} /\ Limit \in Nat \ {0}
    /\ Int64Max \in Nat /\ Int64Max > Limit
    /\ BlockSets \subseteq SUBSET {"bloom", "index"}
    /\ Threaded \in BOOLEAN /\ SplitBatches \in BOOLEAN
    /\ MaxBatch \in Nat \ {0} /\ MaxRows \in Nat /\ MaxFaults \in Nat

VARIABLES
    mode,      \* "file" or "buffer" (is_buffer_writer)
    blocks,    \* write_bloom_filters and write_page_index
    w,         \* the writer
    phase,     \* "open", "closed", "aborted", "taken"
    accepted,  \* history: values per column write_batch said OK to
    reported,  \* history: some call returned an error
    lost,      \* history: fclose dropped bytes and nobody was told
    freed,     \* history: how often the per-column tables were freed
    faults

vars == <<mode, blocks, w, phase, accepted, reported, lost, freed, faults>>

-------------------------------------------------------------------------------
(* The output and the parts of the writer.                                 *)

Value(c, v) == <<"value", c, v>>
Magic == <<"magic", 0, 0>>
Footer == <<"footer", 0, 0>>
Junk == <<"junk", 0, 0>>          \* what a short write leaves behind
Stray == IF mode = "file" THEN {<<>>, <<Junk>>} ELSE {<<>>}

NewWriter(dict) ==
    [out |-> <<>>,                     \* the file, or writer->output
     header |-> FALSE, offset |-> 0,   \* header_written, file_offset
     group |-> FALSE, base |-> 0,      \* current_row_group, its file_offset
     rows |-> 0, est |-> 0,            \* current_row_group_rows, ..._bytes
     written |-> [c \in Cols |-> 0],   \* column_values_written
     dict |-> dict,                    \* per column use_dictionary
     staged |-> [c \in Cols |-> <<>>], \* values not yet encoded
     buffer |-> [c \in Cols |-> <<>>], \* column_buffer: finished pages
     values |-> [c \in Cols |-> 0],    \* total_values of the column writer
     footer |-> <<>>, total |-> 0]     \* row_groups, total_rows

Ok(x) == [w |-> x, ok |-> TRUE]
Failed(x) == [w |-> x, ok |-> FALSE]

\* Do one thing, and the next only if the first returned CARQUET_OK.
Then(outcomes, Next(_)) ==
    UNION {IF o.ok THEN Next(o.w) ELSE {o} : o \in outcomes}

WrappingAdd(a, b) == a + b
SaturatingAdd(a, b) == IF b <= 0 \/ a >= Int64Max - b THEN Int64Max ELSE a + b

EnsureHeader(x) ==
    IF x.header THEN {Ok(x)}
    ELSE {Ok([x EXCEPT !.header = TRUE, !.offset = 1, !.out = Append(@, Magic)])}
         \cup {Failed([x EXCEPT !.out = @ \o s]) : s \in Stray}

EnsureGroup(x) ==
    IF x.group THEN {Ok(x)}
    ELSE {Ok([x EXCEPT !.group = TRUE, !.base = x.offset, !.rows = 0, !.est = 0,
                       !.written = [c \in Cols |-> 0]]),
          Failed(x)}

-------------------------------------------------------------------------------
(* Flushing a row group.                                                   *)

\* The columns in done are finalized: their values move to the column buffer.
\* A dictionary column that keeps its dictionary keeps its staged values too
\* (only reset drops them); one that falls back to PLAIN stays PLAIN for good.
Finalized(x, done, keep) ==
    [x EXCEPT !.buffer = [c \in Cols |-> IF c \in done THEN @[c] \o x.staged[c] ELSE @[c]],
              !.staged = [c \in Cols |-> IF c \in done \ keep THEN <<>> ELSE @[c]],
              !.dict = [c \in Cols |-> @[c] /\ (c \in done => c \in keep)]]

Finalizations(x, done) ==
    LET coded == {c \in done : x.dict[c]}
        empty == {c \in coded : x.staged[c] = <<>>}
    IN  {Finalized(x, done, keep) : keep \in {k \in SUBSET coded : empty \subseteq k}}

Through(x, c) == FlattenSeq(SubSeq(x.buffer, 1, c))
GroupData(x) == Through(x, NumCols)

\* The group's bytes reach the output.
Emit(x, n) == [x EXCEPT !.out = @ \o SubSeq(GroupData(x), 1, n)]

ParallelFinalize == Threaded /\ NumCols > 1 /\ "index" \notin blocks

\* How many cells of the group can have been written when finalizing a column,
\* writing one, or making room for the row group's metadata fails: one buffer
\* is appended at once, a file column by column.
Cuts(x, done) ==
    IF mode = "buffer" \/ (ParallelFinalize /\ done # Cols)
    THEN {0} \cup {Len(GroupData(x)) : d \in {done} \cap {Cols}}
    ELSE (IF ParallelFinalize THEN 0 ELSE Len(Through(x, Cardinality(done) - 1)))
         .. Len(Through(x, Cardinality(done)))

GroupFailures(x) ==
    UNION {UNION {{Failed(Emit(y, n)) : n \in Cuts(y, done)} : y \in Finalizations(x, done)} :
           done \in IF ParallelFinalize THEN SUBSET Cols ELSE {1 .. i : i \in 0 .. NumCols}}

\* The row group's entry for the footer; every chunk's place follows from the
\* offset the row group writer was created or reset with.
Chunk(x, c) == [at |-> x.base + Len(Through(x, c - 1)),
                size |-> Len(x.buffer[c]), values |-> x.values[c]]
Recorded(x) ==
    [x EXCEPT !.footer = Append(@, [rows |-> x.rows, blocks |-> <<>>,
                                    chunks |-> [c \in Cols |-> Chunk(x, c)]]),
              !.offset = @ + Len(GroupData(x)),
              !.total = @ + x.rows]

WrittenGroup(x) ==
    {Ok(Recorded(Emit(y, Len(GroupData(y))))) : y \in Finalizations(x, Cols)}
        \cup GroupFailures(x)

\* All bloom filters, then all page indexes.
BlockOrder ==
    LET each(kind) == IF kind \in blocks THEN [c \in Cols |-> <<kind, c, 0>>] ELSE <<>>
    IN  each("bloom") \o each("index")

\* The first n blocks are written, the first m have their offset recorded.
BlocksUncounted(x, m, n) ==
    [x EXCEPT !.out = @ \o SubSeq(BlockOrder, 1, n),
              !.footer[Len(x.footer)].blocks = [i \in 1 .. m |-> x.offset + i - 1]]
BlocksFromBase(x, m, n) ==
    [x EXCEPT !.out = @ \o SubSeq(BlockOrder, 1, n),
              !.footer[Len(x.footer)].blocks = [i \in 1 .. m |-> x.base + i - 1],
              !.offset = @ + n]
WithBlocks(x, m, n) ==
    [x EXCEPT !.out = @ \o SubSeq(BlockOrder, 1, n),
              !.footer[Len(x.footer)].blocks = [i \in 1 .. m |-> x.offset + i - 1],
              !.offset = @ + n]

\* carquet_row_group_writer_reset, and the counters of the next group.
ResetKeepingPages(x) ==
    [x EXCEPT !.base = x.offset, !.rows = 0, !.est = 0,
              !.written = [c \in Cols |-> 0], !.values = [c \in Cols |-> 0],
              !.staged = [c \in Cols |-> <<>>]]
Reset(x) ==
    [x EXCEPT !.base = x.offset, !.rows = 0, !.est = 0,
              !.written = [c \in Cols |-> 0], !.values = [c \in Cols |-> 0],
              !.staged = [c \in Cols |-> <<>>], !.buffer = [c \in Cols |-> <<>>]]

WithAllBlocks(x) ==
    {Ok(Reset(WithBlocks(x, Len(BlockOrder), Len(BlockOrder))))}
    \cup {Failed([WithBlocks(x, i, i - 1) EXCEPT !.out = @ \o s]) :
             i \in 1 .. Len(BlockOrder), s \in Stray}

HasManyRows(x) == x.group /\ x.rows > 1
HasRows(x) == x.group /\ x.rows > 0

FlushRowGroup(x) ==
    IF ~HasRows(x) THEN {Ok(x)} ELSE Then(WrittenGroup(x), WithAllBlocks)

-------------------------------------------------------------------------------
(* Writing a batch.                                                        *)

\* n more values of column c, whose size is estimated at bytes.
Accept(x, c, n, bytes) ==
    [x EXCEPT !.staged[c] = @ \o [i \in 1 .. n |-> Value(c, accepted[c] + i)],
              !.values[c] = @ + n,
              !.written[c] = @ + n,
              !.rows = IF n > @ THEN n ELSE @,
              !.est = SaturatingAdd(@, bytes)]

\* A batch that fails half way has left its first pages in a PLAIN column.
Staged(x, c, n, bytes) ==
    {Ok(Accept(x, c, n, bytes))}
    \cup {Failed([x EXCEPT !.staged[c] = @ \o [i \in 1 .. k |-> Value(c, accepted[c] + i)],
                           !.values[c] = @ + k]) :
             k \in IF x.dict[c] THEN {0} ELSE 0 .. n - 1}

SomeColumnFull(x) == x.rows > 0 /\ \E c \in Cols : x.written[c] = x.rows
Aligned(x) == x.rows > 0 /\ \A c \in Cols : x.written[c] = x.rows

AutoFlushByRows(x) ==
    IF x.rows > Limit /\ Aligned(x) THEN FlushRowGroup(x) ELSE {Ok(x)}
AutoFlush(x) ==
    IF x.est > Limit /\ Aligned(x) THEN FlushRowGroup(x) ELSE {Ok(x)}

-------------------------------------------------------------------------------
Init ==
    /\ mode \in {"file", "buffer"} /\ blocks \in BlockSets
    /\ \E dict \in [Cols -> BOOLEAN] : w = NewWriter(dict)
    /\ phase = "open"
    /\ accepted = [c \in Cols |-> 0]
    /\ reported = FALSE /\ lost = FALSE
    /\ freed = 0 /\ faults = 0

\* A call that fails uses up one fault.
Returns(o) ==
    /\ o.ok \/ faults < MaxFaults
    /\ w' = o.w
    /\ reported' = (reported \/ ~o.ok)

\* What carquet.h asks of the caller: all columns have the same number of rows
\* when a row group ends.
SameRows == \A c, d \in Cols : w.written[c] = w.written[d]

\* carquet_writer_write_batch
WriteBatch(c, n, bytes) ==
    /\ phase = "open" /\ accepted[c] + n <= MaxRows
    /\ SplitBatches \/ (w.written[c] = 0 /\ \A d \in Cols : w.written[d] \in {0, n})
    /\ \E o \in Then(Then(Then(EnsureHeader(w), EnsureGroup),
                          LAMBDA x : Staged(x, c, n, bytes)), AutoFlush) :
          /\ Returns(o)
          /\ accepted' = IF o.ok THEN [accepted EXCEPT ![c] = @ + n] ELSE accepted
          /\ faults' = IF o.ok THEN faults ELSE faults + 1
    /\ UNCHANGED <<mode, blocks, phase, lost, freed>>

\* carquet_writer_new_row_group
NewRowGroup ==
    /\ phase = "open" /\ SameRows
    /\ \E o \in Then(EnsureHeader(w), FlushRowGroup) :
          /\ Returns(o)
          /\ faults' = IF o.ok THEN faults ELSE faults + 1
    /\ UNCHANGED <<mode, blocks, phase, accepted, lost, freed>>

\* The footer: metadata, its length and the closing magic.
WriteFooter(x) ==
    {Ok([x EXCEPT !.out = Append(@, Footer)])}
    \cup {Failed([x EXCEPT !.out = @ \o s]) : s \in Stray}

\* carquet_writer_close.  Whatever happens the tables are freed; what fclose
\* says is ignored, so the end of a file may be lost without a word.
Close ==
    /\ phase = "open" /\ SameRows
    /\ \E o \in Then(Then(EnsureHeader(w), FlushRowGroup), WriteFooter) :
          \/ /\ Returns(o) /\ lost' = lost
             /\ faults' = IF o.ok THEN faults ELSE faults + 1
          \/ /\ mode = "file" /\ o.ok /\ faults < MaxFaults
             /\ \E n \in 0 .. Len(o.w.out) - 1 : w' = [o.w EXCEPT !.out = SubSeq(@, 1, n)]
             /\ lost' = TRUE /\ faults' = faults + 1 /\ UNCHANGED reported
    /\ phase' = "closed" /\ freed' = freed + 1
    /\ UNCHANGED <<mode, blocks, accepted>>

\* carquet_writer_abort: of an open writer, or of a closed buffer writer.
Abort ==
    /\ phase = "open" \/ (phase = "closed" /\ mode = "buffer")
    /\ w' = [w EXCEPT !.out = <<>>]
    /\ phase' = "aborted" /\ freed' = freed + 1
    /\ UNCHANGED <<mode, blocks, accepted, reported, lost, faults>>

\* carquet_writer_get_buffer, after carquet_writer_close as its contract says.
GetBuffer ==
    /\ phase = "closed" /\ mode = "buffer" /\ w.out # <<>>
    /\ phase' = "taken"
    /\ UNCHANGED <<mode, blocks, w, accepted, reported, lost, freed, faults>>

Next ==
    \/ \E c \in Cols, n \in 1 .. MaxBatch : \E bytes \in {0, n, Int64Max - 1} : WriteBatch(c, n, bytes)
    \/ NewRowGroup
    \/ Close
    \/ Abort
    \/ GetBuffer

Spec == Init /\ [][Next]_vars

-------------------------------------------------------------------------------
(* Properties.  Sound: no call has failed, openly or silently, and the      *)
(* output is still there.                                                   *)

Sound == ~reported /\ ~lost /\ phase # "aborted"

Cell == {Magic, Footer, Junk} \cup {Value(c, v) : c \in Cols, v \in 1 .. MaxRows}
            \cup {<<kind, c, 0>> : kind \in blocks, c \in Cols}

\* The fields of carquet_writer keep their types, and the byte estimate stays
\* within int64_t whatever the sizes of the batches (saturating_add_i64).
TypeOK ==
    /\ mode \in {"file", "buffer"} /\ blocks \in BlockSets
    /\ phase \in {"open", "closed", "aborted", "taken"}
    /\ accepted \in [Cols -> 0 .. MaxRows]
    /\ reported \in BOOLEAN /\ lost \in BOOLEAN
    /\ freed \in Nat /\ faults \in 0 .. MaxFaults
    /\ w.out \in Seq(Cell)
    /\ w.header \in BOOLEAN /\ w.group \in BOOLEAN
    /\ w.offset \in Nat /\ w.base \in Nat /\ w.rows \in Nat /\ w.total \in Nat
    /\ w.est \in 0 .. Int64Max
    /\ w.written \in [Cols -> Nat] /\ w.values \in [Cols -> Nat]
    /\ w.dict \in [Cols -> BOOLEAN]
    /\ w.staged \in [Cols -> Seq(Cell)] /\ w.buffer \in [Cols -> Seq(Cell)]
    /\ \A g \in DOMAIN w.footer :
          w.footer[g] \in [rows : Nat, blocks : Seq(Nat),
                           chunks : [Cols -> [at : Nat, size : Nat, values : Nat]]]

\* What a reader that follows the footer finds in column c.
Decoded(c) ==
    FlattenSeq([g \in DOMAIN w.footer |->
                  LET k == w.footer[g].chunks[c]
                  IN  SubSeq(w.out, k.at + 1, k.at + k.size)])

\* Every value write_batch accepted is, once and in order, either in a chunk
\* the footer points at or still staged: the offsets computed ahead of the
\* writes, the reset after each flush and the reuse of the column writers
\* neither lose, repeat nor misplace a value.
EveryValueOnce ==
    Sound => \A c \in Cols :
        Decoded(c) \o w.buffer[c] \o w.staged[c]
            = [i \in 1 .. accepted[c] |-> Value(c, i)]

\* A row group is a rectangle: each of its chunks holds num_rows values, also
\* when the flush came from write_batch in the middle of a round of batches,
\* and the file's num_rows is the sum over the groups.
GroupsAreRectangular ==
    Sound =>
        /\ \A g \in DOMAIN w.footer : \A c \in Cols :
              LET k == w.footer[g].chunks[c]
              IN  k.values = w.footer[g].rows /\ k.size = w.footer[g].rows
        /\ w.total = FoldSeq(LAMBDA g, n : g.rows + n, 0, w.footer)

\* bloom_filter_offset, column_index_offset and offset_index_offset of every
\* chunk lead to that column's own block.
BlocksWhereRecorded ==
    Sound => \A g \in DOMAIN w.footer :
        /\ Len(w.footer[g].blocks) = Len(BlockOrder)
        /\ \A i \in 1 .. Len(BlockOrder) :
              w.out[w.footer[g].blocks[i] + 1] = BlockOrder[i]

\* Nothing ever asks the file where it is: file_offset and the offset the row
\* group writer was given are the number of bytes really written.
OffsetIsLength ==
    Sound /\ phase = "open" =>
        /\ w.offset = Len(w.out)
        /\ w.group => w.base = Len(w.out)

\* "This is called automatically when the row group size exceeds the
\* configured limit": between two rounds of batches, when all columns have
\* the same rows, the open group is within the limit, whichever column was
\* written last and however the estimate got there.
AlignedGroupWithinLimit ==
    Sound /\ w.group /\ SameRows /\ w.written[1] > 0 => w.est <= Limit

\* A file closed without an error is whole: the magic first, the footer last,
\* and the footer leads to every value written.
ClosedFileIsWhole ==
    Sound /\ phase \in {"closed", "taken"} =>
        /\ w.out[1] = Magic /\ Last(w.out) = Footer
        /\ \A c \in Cols : Decoded(c) = [i \in 1 .. accepted[c] |-> Value(c, i)]

\* write_batch: "Track the row group length as the longest written column."
RowsAreLongestColumn ==
    Sound => \A g \in DOMAIN w.footer :
        LET values == {w.footer[g].chunks[c].values : c \in Cols}
        IN  w.footer[g].rows = CHOOSE n \in values : \A m \in values : m <= n

\* carquet_writer_close leaves a buffer writer to "get_buffer or ... a
\* subsequent abort call": each of its tables is freed once.
TablesFreedOnce == freed <= 1

===============================================================================
