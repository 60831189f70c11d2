------------------------------ MODULE ColumnChunk ------------------------------
(***************************************************************************)
(* One column from the writer's batches to the reader's: the column writer *)
(* fills a chunk, the chunk is closed with its statistics and indexes, and *)
(* a column reader reads or skips its way through it while loads fail and  *)
(* bytes get damaged.  Then the writer is reset and writes the next chunk. *)
(***************************************************************************)
EXTENDS ColumnWriter, ColumnReader

CONSTANTS Columns,   \* the columns to check
          MaxRows,   \* bound: rows of a chunk
          MaxBatch,  \* bound: rows of a batch written or read
          MaxFaults  \* bound: loads that fail, and pages damaged

ASSUME ColumnChunkAssumption ==
    /\ \A col \in Columns : col.kind \in {"bits", "int96"} => col.coding = "plain"
    /\ MaxRows \in Nat /\ MaxBatch \in Nat \ {0} /\ MaxFaults \in Nat

VARIABLES
    col,     \* the column: its schema and the writer's and reader's options
    phase,   \* "write" or "read"
    w,       \* the column writer
    given,   \* history: rows written to the chunk
    chunk,   \* the chunk as it is stored
    r,       \* the column reader
    got,     \* history: rows delivered, byte arrays as pointers
    faults

vars == <<col, phase, w, given, chunk, r, got, faults>>

Skipped == [rep |-> 0, def |-> -1, val |-> NoValue]

RowsOf(c) ==
    {x \in [rep : 0 .. c.maxRep, def : 0 .. c.maxDef, val : ValuesOf(c.kind) \cup {NoValue}] :
       /\ IsPresent(c, x) <=> x.val # NoValue
       /\ x.rep > 0 => IsPresent(c, x)}   \* an element of a list that goes on
Batches(c) == UNION {[1 .. n -> RowsOf(c)] : n \in 1 .. MaxBatch}

\* The caller's array: the present values, then what was there before.
Arrays(c, rows) ==
    LET values == PresentValues(c, rows)
        n      == Len(rows) - Len(values)
    IN  {values \o [i \in 1 .. n |-> v] : v \in IF n = 0 THEN {0} ELSE {0, 1}}

Init ==
    /\ col \in Columns
    /\ phase = "write"
    /\ w = NewColumnWriter(col)
    /\ given = <<>> /\ got = <<>>
    /\ chunk = ChunkOf(w)
    /\ r = NewColumnReader(0)
    /\ faults = 0

Write(rows, array) ==
    /\ phase = "write"
    /\ Len(given) + Len(rows) <= MaxRows
    /\ given = <<>> => rows[1].rep = 0
    /\ w' = WriteBatch(w, rows, array)
    /\ given' = given \o rows
    /\ UNCHANGED <<col, phase, chunk, r, got, faults>>

\* The row group is flushed: the writer is finalized, its chunk stored, and the
\* writer reset for the next row group; a reader is opened on the chunk.
Close ==
    /\ phase = "write"
    /\ phase' = "read"
    /\ \E done \in {Finalize(w)} : chunk' = ChunkOf(done) /\ w' = Reset(done)
    /\ r' = NewColumnReader(chunk'.total)
    /\ UNCHANGED <<col, given, got, faults>>

Delivered(out) ==
    [i \in DOMAIN out.defs |->
       [rep |-> out.reps[i], def |-> out.defs[i],
        val |-> IF out.defs[i] = col.maxDef
                THEN out.values[CountPresent(col, SubSeq(out.defs, 1, i))] ELSE NoValue]]

FaultSets == IF faults < MaxFaults THEN {{}} \cup {{k} : k \in 0 .. Len(chunk.pages)} ELSE {{}}

ReadRows(n, fails) ==
    /\ phase = "read" /\ r.left > 0
    /\ \E done \in {ReadBatch(col, chunk, r, n, fails)} :
          /\ r' = done.r
          /\ got' = IF done.ok THEN got \o Delivered(done.out) ELSE got
    /\ faults' = faults + Cardinality(fails)
    /\ UNCHANGED <<col, phase, w, given, chunk>>

Skip(n, fails) ==
    /\ phase = "read" /\ r.left > 0
    /\ \E skip \in {SkipRows(col, chunk, r, n, fails, 0)} :
          /\ r' = skip.r
          /\ got' = got \o [i \in 1 .. skip.done |-> Skipped]
    /\ faults' = faults + Cardinality(fails)
    /\ UNCHANGED <<col, phase, w, given, chunk>>

\* Bytes of a page change where they are stored.  Without a checksum nothing
\* notices, so only columns with checksums are damaged.
Damage(k) ==
    /\ phase = "read" /\ got = <<>> /\ ~r.loaded
    /\ col.crc /\ faults < MaxFaults
    /\ IF k = 0 THEN chunk' = [chunk EXCEPT !.dictionary = <<[@[1] EXCEPT !.damaged = TRUE]>>]
       ELSE chunk' = [chunk EXCEPT !.pages[k].damaged = TRUE]
    /\ faults' = faults + 1
    /\ UNCHANGED <<col, phase, w, given, r, got>>

\* The reader is freed and the next row group begun.
NextChunk ==
    /\ phase = "read"
    /\ phase' = "write"
    /\ given' = <<>> /\ got' = <<>> /\ faults' = 0
    /\ chunk' = ChunkOf(w) /\ r' = NewColumnReader(0)
    /\ UNCHANGED <<col, w>>

Next ==
    \/ \E rows \in Batches(col) : \E array \in Arrays(col, rows) : Write(rows, array)
    \/ Close
    \/ \E n \in 1 .. MaxBatch, fails \in FaultSets : ReadRows(n, fails) \/ Skip(n, fails)
    \/ \E k \in (IF chunk.dictionary = <<>> THEN 1 ELSE 0) .. Len(chunk.pages) : Damage(k)
    \/ NextChunk

Spec == Init /\ [][Next]_vars

-------------------------------------------------------------------------------
(* Properties.                                                             *)

\* The reader stays within the chunk and its page, the writer's staging and its
\* pages are used one at a time, and only columns with checksums are damaged.
TypeOK ==
    /\ col \in Columns /\ phase \in {"write", "read"} /\ faults \in 0 .. MaxFaults
    /\ r.at \in 1 .. Len(chunk.pages) + 1 /\ r.used \in 0 .. PageNum(r)
    /\ r.left \in 0 .. MaxRows /\ r.loaded \in BOOLEAN
    /\ w.staged # <<>> => w.page.num = 0 /\ w.pages = <<>>
    /\ \A k \in DOMAIN chunk.pages : chunk.pages[k].damaged => col.crc

\* Every page is one piece, or its pieces run together, and no chunk of a
\* batch was taken from the wrong place of the caller's array.
Sound == ~chunk.misplaced /\ \A k \in DOMAIN chunk.pages : JoinsUp(col, chunk.pages[k])

Matches(x, y) ==
    \/ x = Skipped
    \/ /\ x.rep = y.rep /\ x.def = y.def
       /\ IF IsPresent(col, y) THEN Deref(col, chunk, r, x.val) = y.val ELSE x.val = NoValue
ReadsWhatWasWritten ==
    phase = "read" =>
        /\ Len(got) + r.left = Len(given)
        /\ \A i \in DOMAIN got : Matches(got[i], given[i])

\* What carquet_column_read_batch delivers, across pages, skips, failed loads
\* and damaged bytes, is what was written, levels and values; and every byte
\* array handed out still leads to its bytes when later pages have been loaded.
RoundTrip == Sound => ReadsWhatWasWritten

\* A predicate by which carquet_reader_row_group_matches rules the chunk out
\* holds for none of its rows, whatever pages, batches and fallbacks the
\* statistics were gathered from; the bloom filter knows every value.  Values
\* without an order (NaN) or without a byte (the empty string) are left to
\* PruningIsSafe.
Present == {given[i].val : i \in {j \in DOMAIN given : IsPresent(col, given[j])}}
RuledOut(op, v) == ~MightMatch(col.kind, chunk.stats, op, v)
Comparable(v) == ~IsNaN(col.kind, v) /\ Size(col.kind, v) > 0
NoMatch(op, v) == \A x \in Present : ~Holds(col.kind, op, x, v)
PruningFindsOrderedValues ==
    phase = "read" /\ ~chunk.misplaced =>
        /\ Present \subseteq chunk.bloom
        /\ (\A x \in Present : Comparable(x)) =>
             \A op \in Ops, v \in {x \in ValuesOf(col.kind) : Comparable(x)} :
                RuledOut(op, v) => NoMatch(op, v)

\* carquet.h of carquet_reader_row_group_matches: statistics decide whether a
\* row group "can be safely skipped".
PruningIsSafe ==
    phase = "read" /\ ~chunk.misplaced =>
        \A op \in Ops, v \in ValuesOf(col.kind) : RuledOut(op, v) => NoMatch(op, v)

\* The indexes a chunk is stored with describe its pages: nulls and bounds of
\* the rows from one first row to the next, and the chunk's nulls in all.
\* Repeated columns are left out: there page_row_offset counts values.
PageRows(k) ==
    SubSeq(given, chunk.offsetIndex[k].row + 1,
           IF k < Len(chunk.pages) THEN chunk.offsetIndex[k + 1].row ELSE Len(given))
Describes(entry, rows) ==
    LET values == {v \in Range(PresentValues(col, rows)) : ~IsNaN(col.kind, v)}
    IN  /\ entry.nulls = Len(rows) - NonNull(col, rows)
        /\ IF entry.nullPage THEN values = {} \/ col.kind = "int96"
           ELSE \A v \in values : entry.min <= v /\ v <= entry.max
IndexesDescribePages ==
    phase = "read" /\ ~chunk.misplaced =>
        /\ chunk.nulls = Len(given) - NonNull(col, given)
        /\ Len(chunk.columnIndex) = Len(chunk.pages) /\ Len(chunk.offsetIndex) = Len(chunk.pages)
        /\ col.maxRep = 0 /\ ~(col.coding = "dict" /\ col.kind = "floats") =>
             \A k \in DOMAIN chunk.pages : Describes(chunk.columnIndex[k], PageRows(k))

\* Unless bytes are damaged, also after loads that failed, the next call of
\* carquet_column_read_batch or carquet_column_skip covers the rows it is asked
\* for or all that are left: a short count means the end or an error.
AllIntact ==
    /\ \A k \in DOMAIN chunk.pages : ~chunk.pages[k].damaged
    /\ \A k \in DOMAIN chunk.dictionary : ~chunk.dictionary[k].damaged
CallsFillBatches ==
    phase = "read" /\ Sound /\ AllIntact =>
        \A n \in 1 .. MaxBatch :
            /\ Len(ReadBatch(col, chunk, r, n, {}).out.defs) = Min({n, r.left})
            /\ SkipRows(col, chunk, r, n, {}, 0).done = Min({n, r.left})
===============================================================================
