------------------------------ MODULE ColumnWriter ------------------------------
(***************************************************************************)
(* column_writer.c: batches are cut into chunks for the page writer, pages *)
(* are finished at a size or a number of rows, a dictionary column is      *)
(* staged whole and falls back to PLAIN when its dictionary does not pay.  *)
(* A writer is a record; an operation gives the writer it leaves.          *)
(***************************************************************************)
EXTENDS PageFormat

CONSTANTS TargetPageSize,  \* target_page_size, in cells
          MinChunk,        \* rows of a chunk at least: 1024
          FallbackRows,    \* rows of a page after a fallback at least: 1024
          DictionaryLimit  \* dictionary_page_size_limit, in entries

ASSUME ColumnWriterAssumption ==
    /\ TargetPageSize \in Nat \ {0} /\ MinChunk \in Nat \ {0}
    /\ FallbackRows \in Nat \ {0} /\ DictionaryLimit \in Nat \ {0}

NewColumnWriter(col) ==
    [col |-> col,
     page |-> NewPage,                  \* the page writer
     coding |-> col.coding,             \* its encoding
     useDict |-> col.coding = "dict",
     staged |-> <<>>,                   \* dict_def_levels, dict_rep_levels
     values |-> <<>>,                   \* dict_values or dict_ba
     dictionary |-> <<>>,               \* the dictionary page, if any
     pages |-> <<>>,                    \* the rest of column_buffer
     total |-> 0, nulls |-> 0,          \* total_values, total_nulls
     stats |-> NoStats,                 \* of the chunk
     columnIndex |-> <<>>, offsetIndex |-> <<>>,
     rowOffset |-> 0,                   \* page_row_offset
     bloom |-> {},                      \* values in the bloom filter
     misplaced |-> FALSE]               \* history: a chunk began at a wrong value

\* flush_current_page
IndexEntryAnyNull(p) ==
    [nulls |-> p.nulls, nullPage |-> p.nulls > 0, min |-> p.stats.min, max |-> p.stats.max]
IndexEntry(p) ==
    [nulls |-> p.nulls, nullPage |-> ~p.stats.has, min |-> p.stats.min, max |-> p.stats.max]
FlushPage(w) ==
    IF w.page.num = 0 THEN w
    ELSE [w EXCEPT !.pages = Append(@, Finalized(w.col, w.coding, w.page)),
                   !.nulls = @ + w.page.nulls,
                   !.stats = Merged(w.col.kind, @, w.page.stats),
                   !.columnIndex = Append(@, IndexEntry(w.page)),
                   !.offsetIndex = Append(@, [page |-> Len(w.pages) + 1, row |-> w.rowOffset]),
                   !.rowOffset = @ + w.page.num,
                   !.page = NewPage]

\* bloom_filter_insert_chunk: as many values from the front of array as rows
\* are present.
BloomWith(w, rows, array) ==
    w.bloom \cup Range(SubSeq(array, 1, NonNull(w.col, rows)))

-------------------------------------------------------------------------------
(* carquet_column_writer_write_batch.                                      *)

\* A batch is rows and the array of their values; the array has an element per
\* row, those after the present values hold whatever the caller left there.
MaxChunk(col, num) ==
    LET byPage == IF HasStride(col) THEN Max({TargetPageSize, MinChunk}) ELSE num
    IN  IF col.batch > 0 /\ col.batch < byPage THEN col.batch ELSE byPage

PageFull(w) ==
    \/ EstimatedSize(w.page) >= TargetPageSize
    \/ w.col.cap > 0 /\ w.page.num >= w.col.cap
FlushedIfFull(w) == IF PageFull(w) THEN FlushPage(w) ELSE w

ChunkAdded(w, rows, array) ==
    FlushedIfFull([w EXCEPT !.page = AddValues(w.col, w.coding, @, rows, array),
                            !.total = @ + Len(rows),
                            !.bloom = BloomWith(w, rows, array)])

\* The next chunk's values are looked for as many elements further as rows
\* were written.
RECURSIVE AddChunks(_, _, _, _)
AddChunk(w, rows, rest, array, size) ==
    AddChunks([ChunkAdded(w, rows, array) EXCEPT
                 !.misplaced = @ \/ (NonNull(w.col, rows) < Len(rows)
                                       /\ NonNull(w.col, rest) > 0)],
              rest, SubSeq(array, Len(rows) + 1, Len(array)), size)
AddChunks(w, rows, array, size) ==
    IF Len(rows) <= size
    THEN IF rows = <<>> THEN w ELSE ChunkAdded(w, rows, array)
    ELSE AddChunk(w, SubSeq(rows, 1, size), SubSeq(rows, size + 1, Len(rows)), array, size)

\* dict_accumulate
Accumulate(w, rows, array) ==
    [w EXCEPT !.staged = @ \o rows,
              !.values = @ \o SubSeq(array, 1, NonNull(w.col, rows)),
              !.total = @ + Len(rows),
              !.bloom = BloomWith(w, rows, array)]

WriteBatch(w, rows, array) ==
    IF w.useDict THEN Accumulate(w, rows, array)
    ELSE AddChunks(w, rows, array, MaxChunk(w.col, Len(rows)))

-------------------------------------------------------------------------------
(* carquet_column_writer_finalize.                                         *)

\* dict_fallback_to_plain: every chunk is a page, and its values are found by
\* counting the present ones.
RECURSIVE Replay(_, _, _, _)
RowsPerPage(col) ==
    IF HasStride(col) THEN Max({TargetPageSize, FallbackRows}) ELSE 8 * FallbackRows
ReplayPage(w, first, rest, values, n) ==
    Replay(FlushPage([w EXCEPT !.page = AddValues(w.col, "plain", @, first,
                                                  IF n = 0 THEN <<0>> ELSE values)]),
           rest, SubSeq(values, n + 1, Len(values)), RowsPerPage(w.col))
Replay(w, rows, values, size) ==
    IF rows = <<>> THEN w
    ELSE LET k == Min({size, Len(rows)})
         IN  ReplayPage(w, SubSeq(rows, 1, k), SubSeq(rows, k + 1, Len(rows)), values,
                        NonNull(w.col, SubSeq(rows, 1, k)))

FallBack(w) ==
    Replay([w EXCEPT !.coding = "plain", !.useDict = FALSE], w.staged, w.values,
           RowsPerPage(w.col))

\* carquet_dictionary_encode_capped: entries in the order they are first met.
Entries(values) ==
    FoldLeft(LAMBDA found, v : IF v \in Range(found) THEN found ELSE Append(found, v),
             <<>>, values)
IndexOf(entries, v) == SelectInSeq(entries, LAMBDA e : e = v) - 1
Indices(entries, values) == [i \in DOMAIN values |-> IndexOf(entries, values[i])]

\* finalize_dictionary
Pays(entries, values) == Len(entries) <= DictionaryLimit /\ Len(entries) < Len(values)
Dictionaried(w, entries) ==
    FlushPage([w EXCEPT
        !.dictionary = <<DictionaryPage(w.col, entries)>>,
        !.page = AddIndices(w.col, @, w.staged, Indices(entries, w.values),
                            DictionaryStats(w.col.kind, w.values))])
FinalizeDictionary(w) ==
    CASE w.staged = <<>> -> w
      [] w.staged # <<>> /\ (w.values = <<>> \/ ~Pays(Entries(w.values), w.values)) -> FallBack(w)
      [] OTHER -> Dictionaried(w, Entries(w.values))

Finalize(w) == IF w.useDict THEN FinalizeDictionary(w) ELSE FlushPage(w)

\* carquet_column_writer_reset: use_dictionary and the page writer's encoding
\* stay as the last chunk left them.
ResetKeepingStaged(w) ==
    [NewColumnWriter(w.col) EXCEPT !.useDict = w.useDict, !.coding = w.coding,
                                   !.staged = w.staged, !.values = w.values]
Reset(w) ==
    [NewColumnWriter(w.col) EXCEPT !.useDict = w.useDict, !.coding = w.coding]

\* What the row group writer and the footer take over.
ChunkOf(w) ==
    [dictionary |-> w.dictionary, pages |-> w.pages, total |-> w.total, nulls |-> w.nulls,
     stats |-> w.stats, columnIndex |-> w.columnIndex, offsetIndex |-> w.offsetIndex,
     bloom |-> w.bloom, misplaced |-> w.misplaced]
===============================================================================
